---- MODULE Spec2Model ----
(***************************************************************************)
(* Client-side state reconciliation of the WareBot dashboard.              *)
(*                                                                         *)
(* One component tree is mounted at a time (App.tsx routes one page; the   *)
(* MapProvider/MapView tree is a separate root), so `view` names the tree  *)
(* whose state the other variables hold:                                   *)
(*   "ctx"     MapProvider (context/MapContext) + ShelfDetailsPanel        *)
(*   "map"     pages/Map      WarehouseMap, state mapData                  *)
(*   "robots"  pages/Robots   state robotList                              *)
(*   "shelves" pages/Shelves  state shelfList + the edit form              *)
(*   "hook"    hooks/useTaskSocket feeding the MapProvider store           *)
(*                                                                         *)
(* JavaScript values are written as strings: numbers are the numerals of   *)
(* Numbers, and undefined, null, NaN and a non-numeric string have one     *)
(* representative each.                                                    *)
(***************************************************************************)
EXTENDS Naturals, Sequences, FiniteSets, TLC

VARIABLES
    view,        \* the mounted component tree
    traffic,     \* the kind of record that changes on the backend during the
                 \* session, "none" for a session of user actions on a quiet backend
    tasks,       \* MapProvider: Map<string, TaskMapView>
    shelves,     \* MapProvider: Map<string, ShelfMap>
    robots,      \* MapProvider: Map<string, Robot>
    selected,    \* MapView: selectedShelfId
    panel,       \* ShelfDetailsPanel state (without its success banner), NoPanel
                 \* while it is not rendered
    mapData,     \* pages/Map: mapData (its robots, shelves and tasks), null before the load
    robotList,   \* pages/Robots: robotList
    shelfList,   \* pages/Shelves: shelfList
    editingShelf,  \* pages/Shelves: the shelf under edit in the modal, or null
    formData,    \* pages/Shelves: the fields of the modal form
    selectedShelf, \* pages/Shelves: the shelf of the detail modal, or null
    inflight,    \* REST requests awaiting their response
    srvStorage,  \* the backend's storage coordinates of each shelf
    sent,        \* REST requests issued by the last step
    last,        \* the last operation and its arguments
    hook,        \* useTaskSocket: mounted, socketRef, isConnected, error, reconnectCountRef
    sockets,     \* the sockets io() has returned to the hook: connection state
                 \* and the subscriptions emitted on the connection since it was made
    fetches,     \* getAllTasksForMap requests of the connect handler awaiting their response
    missed,      \* a move of s1 reached no connection and the store has not heard of it since
    wanted,      \* the subscriptions the hook has emitted for its owner and the
                 \* owner has not withdrawn
    srvCurrent,  \* the backend's current position of shelf s1
    callbackRegistry,  \* services/websocket: the callbacks of each event, in insertion order
    dispatched,  \* the course of the last dispatch of a socket event by services/websocket
    socketListeners,  \* the listeners of the shared socket for each event pages listen to
    taskList     \* pages/Tasks: taskList

ctx == <<tasks, shelves, robots, selected, panel>>
pages == <<mapData, robotList, shelfList, editingShelf, formData, selectedShelf>>
conn == <<hook, sockets, fetches, missed, wanted, srvCurrent>>
reg == <<callbackRegistry, dispatched, socketListeners>>
rest == <<conn, reg, taskList>>
\* the name of the last operation comes first: two steps of one operation
\* carry arguments of one shape
vars == <<last.op, view, traffic, ctx, pages, inflight, srvStorage, sent, last, rest>>

-----------------------------------------------------------------------------
(* JavaScript values *)

UNDEFINED == "undefined"
NULL == "null"
NaN == "NaN"
BadString == "abc"
\* null where an object is expected
NullObject == [null |-> TRUE]
Numbers == {"0", "1", "2"}

\* Number(v)
Number(v) ==
    IF v \in Numbers THEN v
    ELSE IF v = NULL THEN "0"
    ELSE NaN

\* a || b
Truthy(v) == v \notin {UNDEFINED, NULL, NaN, "0", ""}
OrElse(a, b) == IF Truthy(a) THEN a ELSE b

\* a ?? b
Coalesce(a, b) == IF a \in {UNDEFINED, NULL} THEN b ELSE a

\* Map.prototype.set on a Map held as a function
MapSet(m, k, v) == [i \in DOMAIN m \cup {k} |-> IF i = k THEN v ELSE m[i]]
EmptyMap == [i \in {} |-> i]

\* new Map(); list.forEach(e => map.set(key(e), e))
RECURSIVE MapOfList(_, _)
MapOfList(list, key) ==
    IF list = <<>> THEN EmptyMap
    ELSE LET n == Len(list)
         IN  MapSet(MapOfList(SubSeq(list, 1, n - 1), key), list[n][key], list[n])

-----------------------------------------------------------------------------
(* Bounds and input sets *)

MaxInflight == 1

Coordinates(x, y, yaw) == [x |-> x, y |-> y, yaw |-> yaw]

Away == Coordinates("2", "1", "1")

InitialStorage == [s \in {"s1", "s2"} |->
    IF s = "s1" THEN Coordinates("1", "1", "0") ELSE Coordinates("2", "2", UNDEFINED)]

\* the backend's record of a shelf standing at `cur`
ServerShelf(id, cur, storage) ==
    [id |-> id, warehouse_id |-> "w1", storage |-> storage, current |-> cur,
     location_status |-> IF cur = storage THEN "STORED" ELSE "AT_DROP_ZONE",
     available |-> TRUE, status |-> "IDLE"]

NoOp == [op |-> "init", id |-> "", args |-> <<>>]

\* pages/Shelves: the empty form
initialFormData ==
    [warehouse_id |-> "", current_x |-> "0", current_y |-> "0", current_yaw |-> "0",
     level |-> "1", available |-> "true", status |-> "IDLE",
     storage_x |-> UNDEFINED, storage_y |-> UNDEFINED, storage_yaw |-> UNDEFINED]
NoPanel == [mounted |-> FALSE]

-----------------------------------------------------------------------------
(* MapProvider: the state updaters of context/MapContext *)

\* updateTaskStatus: setTasksState((prev) => ...)
updateTaskStatusUpdater(prev, taskId, status) ==
    IF taskId \notin DOMAIN prev THEN prev
    ELSE MapSet(prev, taskId, [prev[taskId] EXCEPT !.status = status])

\* setShelf: setShelvesState((prev) => new Map(prev).set(shelf.id, shelf))
setShelfUpdater(prev, shelf) == MapSet(prev, shelf.id, shelf)

\* a setShelfCurrent that carries the storage along with the shelf
setShelfCurrentMovingStorage(prev, shelfId, x, y, locationStatus) ==
    IF shelfId \notin DOMAIN prev THEN prev
    ELSE LET shelf == prev[shelfId]
         IN  MapSet(prev, shelfId,
                 [shelf EXCEPT !.current = Coordinates(x, y, shelf.current.yaw),
                               !.storage = Coordinates(x, y, shelf.storage.yaw),
                               !.location_status = locationStatus])

\* setShelfCurrent: setShelvesState((prev) => ...)
setShelfCurrentUpdater(prev, shelfId, x, y, locationStatus) ==
    IF shelfId \notin DOMAIN prev THEN prev
    ELSE LET shelf == prev[shelfId]
         IN  MapSet(prev, shelfId,
                 [shelf EXCEPT !.current = Coordinates(x, y, shelf.current.yaw),
                               !.location_status = locationStatus])

\* a setRobotPosition that records a robot it does not know
setRobotPositionUpsert(prev, robotId, x, y) ==
    IF robotId \notin DOMAIN prev THEN MapSet(prev, robotId, [id |-> robotId, x |-> x, y |-> y])
    ELSE MapSet(prev, robotId, [prev[robotId] EXCEPT !.x = x, !.y = y])

\* setRobotPosition: setRobotsState((prev) => ...)
setRobotPositionUpdater(prev, robotId, x, y) ==
    IF robotId \notin DOMAIN prev THEN prev
    ELSE MapSet(prev, robotId, [prev[robotId] EXCEPT !.x = x, !.y = y])

(* ShelfDetailsPanel is rendered by MapView while the selected shelf is in the store *)

PanelRendered(sel, sh) == sel # NULL /\ sel \in DOMAIN sh

\* the useState initial values of ShelfDetailsPanel
FreshPanel(shelf) ==
    [mounted |-> TRUE, isRestoring |-> FALSE, showStorageForm |-> FALSE,
     storageCoords |-> [storage_x |-> shelf.storage.x, storage_y |-> shelf.storage.y,
                        storage_yaw |-> OrElse(shelf.storage.yaw, "0")],
     error |-> NULL]

\* the panel after a render with selection sel and shelves sh: it keeps its state
\* while it stays rendered and starts afresh when it is rendered again
PanelAfter(sel, sh) ==
    IF ~PanelRendered(sel, sh) THEN NoPanel
    ELSE IF panel.mounted /\ sel = selected THEN panel
    ELSE FreshPanel(sh[sel])

\* a request whose panel was unmounted can no longer set that panel's state
InflightAfter(reqs, sel, sh) ==
    IF panel.mounted /\ ~(PanelRendered(sel, sh) /\ sel = selected)
    THEN [i \in DOMAIN reqs |-> [reqs[i] EXCEPT !.live = FALSE]]
    ELSE reqs

Remove(seq, i) == SubSeq(seq, 1, i - 1) \o SubSeq(seq, i + 1, Len(seq))

\* shelf.current.x !== shelf.storage.x || shelf.current.y !== shelf.storage.y
isDifferent(shelf) == shelf.current.x # shelf.storage.x \/ shelf.current.y # shelf.storage.y

CtxFrame == UNCHANGED <<view, traffic, srvStorage, pages, rest>>

(* Input sets of the MapProvider tree *)

\* a task of the map view and a robot of the map view
MapTask(id, status) == [task_id |-> id, status |-> status, task_type |-> "MOVE_SHELF"]
MapRobot(id) == [id |-> id, x |-> "1", y |-> "1", status |-> "IDLE", battery |-> "2"]

\* snapshots of the tasks: one task, another task, the same task twice, none
TaskSnapshots ==
    IF traffic = "tasks"
    THEN { <<MapTask("t1", "PENDING")>>, <<MapTask("t2", "PENDING")>>,
           <<MapTask("t1", "PENDING"), MapTask("t1", "COMPLETED")>>, <<>> }
    ELSE { <<MapTask("t1", "PENDING")>> }
RobotSnapshots ==
    IF traffic = "robots"
    THEN { <<MapRobot("r1")>>, <<MapRobot("r2")>>, <<MapRobot("r1"), MapRobot("r2")>> }
    ELSE { <<MapRobot("r1")>> }
\* snapshots of the shelves: both shelves, and the second shelf alone
ShelfSnapshots ==
    { <<ServerShelf("s1", c, srvStorage["s1"]),
        ServerShelf("s2", srvStorage["s2"], srvStorage["s2"])>> : c \in {srvStorage["s1"], Away} }
    \cup (IF traffic = "none"
          THEN { <<ServerShelf("s2", srvStorage["s2"], srvStorage["s2"])>> }
          ELSE {})

\* the setShelfCurrent calls made on the store: a move away, and the return of
\* s1 to its storage coordinates
SetShelfCurrentCalls ==
    { <<"s1", Away, "IN_TRANSIT">>, <<"s2", Away, "IN_TRANSIT">>, <<"s9", Away, "IN_TRANSIT">> }
    \cup { <<"s1", shelves[s].storage, "RESTORED_TO_STORAGE">> : s \in DOMAIN shelves \cap {"s1"} }

Op(name, id, args) == [op |-> name, id |-> id, args |-> args]

\* a setTasks that sets the snapshot's tasks into the previous map
setTasksMerging(newTasks) ==
    /\ view = "ctx"
    /\ tasks' = [id \in DOMAIN tasks \cup DOMAIN MapOfList(newTasks, "task_id") |->
                    IF id \in DOMAIN MapOfList(newTasks, "task_id")
                    THEN MapOfList(newTasks, "task_id")[id] ELSE tasks[id]]
    /\ sent' = <<>>
    /\ last' = Op("setTasks", "", newTasks)
    /\ UNCHANGED <<shelves, robots, selected, panel, inflight>>
    /\ CtxFrame

setTasks(newTasks) ==
    /\ view = "ctx"
    /\ tasks' = MapOfList(newTasks, "task_id")
    /\ sent' = <<>>
    /\ last' = Op("setTasks", "", newTasks)
    /\ UNCHANGED <<shelves, robots, selected, panel, inflight>>
    /\ CtxFrame

setShelves(newShelves) ==
    /\ view = "ctx"
    /\ shelves' = MapOfList(newShelves, "id")
    /\ panel' = PanelAfter(selected, shelves')
    /\ inflight' = InflightAfter(inflight, selected, shelves')
    /\ sent' = <<>>
    /\ last' = Op("setShelves", "", newShelves)
    /\ UNCHANGED <<tasks, robots, selected>>
    /\ CtxFrame

setRobots(newRobots) ==
    /\ view = "ctx"
    /\ robots' = MapOfList(newRobots, "id")
    /\ sent' = <<>>
    /\ last' = Op("setRobots", "", newRobots)
    /\ UNCHANGED <<tasks, shelves, selected, panel, inflight>>
    /\ CtxFrame

updateTaskStatus(taskId, status) ==
    /\ view = "ctx"
    /\ tasks' = updateTaskStatusUpdater(tasks, taskId, status)
    /\ sent' = <<>>
    /\ last' = Op("updateTaskStatus", taskId, [status |-> status])
    /\ UNCHANGED <<shelves, robots, selected, panel, inflight>>
    /\ CtxFrame

setRobotPosition(robotId, x, y) ==
    /\ view = "ctx"
    /\ robots' = setRobotPositionUpdater(robots, robotId, x, y)
    /\ sent' = <<>>
    /\ last' = Op("setRobotPosition", robotId, [x |-> x, y |-> y])
    /\ UNCHANGED <<tasks, shelves, selected, panel, inflight>>
    /\ CtxFrame

setShelfCurrent(shelfId, x, y, locationStatus) ==
    /\ view = "ctx"
    /\ shelves' = setShelfCurrentUpdater(shelves, shelfId, x, y, locationStatus)
    /\ sent' = <<>>
    /\ last' = Op("setShelfCurrent", shelfId, [x |-> x, y |-> y, locationStatus |-> locationStatus])
    /\ UNCHANGED <<tasks, robots, selected, panel, inflight>>
    /\ CtxFrame

\* MapView: onClick of a shelf, and the panel's onClose
SelectShelf(id) ==
    /\ view = "ctx"
    /\ id \in DOMAIN shelves
    /\ id # selected
    /\ selected' = id
    /\ panel' = PanelAfter(id, shelves)
    /\ inflight' = InflightAfter(inflight, id, shelves)
    /\ sent' = <<>>
    /\ last' = Op("SelectShelf", id, <<>>)
    /\ UNCHANGED <<tasks, shelves, robots>>
    /\ CtxFrame

onClose ==
    /\ view = "ctx"
    /\ panel.mounted
    /\ selected' = NULL
    /\ panel' = NoPanel
    /\ inflight' = InflightAfter(inflight, NULL, shelves)
    /\ sent' = <<>>
    /\ last' = Op("onClose", selected, <<>>)
    /\ UNCHANGED <<tasks, shelves, robots>>
    /\ CtxFrame

\* the Admin button, the form's Cancel button and its inputs
ShowStorageForm(show) ==
    /\ view = "ctx"
    /\ panel.mounted
    /\ panel.showStorageForm # show
    /\ panel' = [panel EXCEPT !.showStorageForm = show]
    /\ sent' = <<>>
    /\ last' = Op("setShowStorageForm", selected, <<>>)
    /\ UNCHANGED <<tasks, shelves, robots, selected, inflight>>
    /\ CtxFrame

setStorageCoords(field, value) ==
    /\ view = "ctx"
    /\ panel.mounted
    /\ panel.showStorageForm
    /\ panel.storageCoords[field] # value
    /\ panel' = [panel EXCEPT !.storageCoords[field] = value]
    /\ sent' = <<>>
    /\ last' = Op("setStorageCoords", selected, <<>>)
    /\ UNCHANGED <<tasks, shelves, robots, selected, inflight>>
    /\ CtxFrame

\* handleRestore up to its await
handleRestore ==
    /\ view = "ctx"
    /\ panel.mounted
    /\ ~panel.showStorageForm
    /\ ~panel.isRestoring
    /\ LET shelf == shelves[selected] IN
       IF ~isDifferent(shelf)
       THEN /\ UNCHANGED panel
            /\ sent' = <<>>
            /\ UNCHANGED inflight
       ELSE /\ Len(inflight) < MaxInflight
            /\ panel' = [panel EXCEPT !.isRestoring = TRUE, !.error = NULL]
            /\ sent' = <<[kind |-> "restore", id |-> shelf.id]>>
            /\ inflight' = Append(inflight, [kind |-> "restore", id |-> shelf.id,
                                             coords |-> NULL, live |-> TRUE])
    /\ last' = Op("handleRestore", selected, <<>>)
    /\ UNCHANGED <<tasks, shelves, robots, selected>>
    /\ CtxFrame

\* a handler that goes on whatever the answer
declinedNever(confirmed) == FALSE

\* if (!confirmed) return;
declined(confirmed) == ~confirmed

\* handleSetStorage up to its await; `confirmed` is the answer to window.confirm
handleSetStorage(confirmed) ==
    /\ view = "ctx"
    /\ panel.mounted
    /\ panel.showStorageForm
    /\ LET shelf == shelves[selected] IN
       IF declined(confirmed)
       THEN /\ sent' = <<>>
            /\ UNCHANGED inflight
       ELSE /\ Len(inflight) < MaxInflight
            /\ sent' = <<[kind |-> "set_storage", id |-> shelf.id]>>
            /\ inflight' = Append(inflight, [kind |-> "set_storage", id |-> shelf.id,
                                             coords |-> panel.storageCoords, live |-> TRUE])
    /\ panel' = [panel EXCEPT !.error = NULL]
    /\ last' = Op("handleSetStorage", selected, [confirmed |-> confirmed])
    /\ UNCHANGED <<tasks, shelves, robots, selected>>
    /\ CtxFrame

\* POST /shelves/:id/restore answered 2xx: the shelf, back at its storage location
RestoreResponse(id) ==
    [ServerShelf(id, srvStorage[id], srvStorage[id]) EXCEPT
        !.location_status = "RESTORED_TO_STORAGE"]

\* handleRestore after its await, the request fulfilled
handleRestoreResolved(i) ==
    /\ view = "ctx"
    /\ i \in DOMAIN inflight
    /\ inflight[i].kind = "restore"
    /\ LET req == inflight[i]
           updated == RestoreResponse(req.id)
       IN  /\ shelves' = setShelfUpdater(shelves, updated)
           /\ panel' = IF req.live
                       THEN [panel EXCEPT !.isRestoring = FALSE]
                       ELSE PanelAfter(selected, shelves')
           /\ inflight' = Remove(inflight, i)
           /\ last' = Op("handleRestoreResolved", req.id, <<>>)
    /\ sent' = <<>>
    /\ UNCHANGED <<tasks, robots, selected>>
    /\ CtxFrame

\* the ways a request fails: fetch rejects, or the response is not ok
Failures == {"network", "403", "500"}
statusText(failure) == IF failure = "403" THEN "Forbidden" ELSE "Internal Server Error"

\* the message of the error a failed request of mapApi throws
ApiErrorMessage(kind, failure) ==
    IF failure = "network" THEN "Network error"
    ELSE IF kind = "set_storage" /\ failure = "403" THEN "Forbidden: Admin privileges required"
    ELSE IF kind = "set_storage" THEN "Failed to set shelf storage: " \o statusText(failure)
    ELSE "Failed to restore shelf: " \o statusText(failure)

\* err.message || fallback
MessageOr(message, fallback) == IF message # "" THEN message ELSE fallback

\* handleRestore after its await, the request rejected (network error or !res.ok)
handleRestoreRejected(i, failure) ==
    /\ view = "ctx"
    /\ i \in DOMAIN inflight
    /\ inflight[i].kind = "restore"
    /\ panel' = IF inflight[i].live
                THEN [panel EXCEPT
                        !.error = MessageOr(ApiErrorMessage("restore", failure),
                                            "Failed to restore shelf"),
                        !.isRestoring = FALSE]
                ELSE panel
    /\ last' = Op("handleRestoreRejected", inflight[i].id,
                  [failure |-> failure, live |-> inflight[i].live])
    /\ inflight' = Remove(inflight, i)
    /\ sent' = <<>>
    /\ UNCHANGED <<tasks, shelves, robots, selected>>
    /\ CtxFrame

\* PUT /shelves/:id/storage answered 2xx: the backend stores the coordinates and
\* returns the shelf, at the position `cur` the backend knows for it
SetStorageResponse(id, coords, cur) ==
    ServerShelf(id, cur, Coordinates(coords.storage_x, coords.storage_y, coords.storage_yaw))

\* handleSetStorage after its await, the request fulfilled
handleSetStorageResolved(i, cur) ==
    /\ view = "ctx"
    /\ i \in DOMAIN inflight
    /\ inflight[i].kind = "set_storage"
    /\ LET req == inflight[i]
           updated == SetStorageResponse(req.id, req.coords, cur)
       IN  /\ srvStorage' = [srvStorage EXCEPT ![req.id] = updated.storage]
           /\ shelves' = setShelfUpdater(shelves, updated)
           /\ panel' = IF req.live
                       THEN [panel EXCEPT !.showStorageForm = FALSE]
                       ELSE PanelAfter(selected, shelves')
           /\ inflight' = Remove(inflight, i)
           /\ last' = Op("handleSetStorageResolved", req.id, [coords |-> req.coords])
    /\ sent' = <<>>
    /\ UNCHANGED <<view, traffic, tasks, robots, selected, pages, rest>>

\* a handleSetStorage that puts the coordinates of the form into the store
\* whatever the answer
handleSetStorageRejectedOptimistic(i, failure) ==
    /\ view = "ctx"
    /\ i \in DOMAIN inflight
    /\ inflight[i].kind = "set_storage"
    /\ inflight[i].id \in DOMAIN shelves
    /\ shelves' = [shelves EXCEPT ![inflight[i].id].storage =
                      Coordinates(inflight[i].coords.storage_x, inflight[i].coords.storage_y,
                                  inflight[i].coords.storage_yaw)]
    /\ panel' = IF inflight[i].live
                THEN [panel EXCEPT
                        !.error = MessageOr(ApiErrorMessage("set_storage", failure),
                                            "Failed to set storage location")]
                ELSE panel
    /\ last' = Op("handleSetStorageRejected", inflight[i].id,
                  [failure |-> failure, live |-> inflight[i].live])
    /\ inflight' = Remove(inflight, i)
    /\ sent' = <<>>
    /\ UNCHANGED <<tasks, robots, selected>>
    /\ CtxFrame

\* handleSetStorage after its await, the request rejected (403, !res.ok, network)
handleSetStorageRejected(i, failure) ==
    /\ view = "ctx"
    /\ i \in DOMAIN inflight
    /\ inflight[i].kind = "set_storage"
    /\ panel' = IF inflight[i].live
                THEN [panel EXCEPT
                        !.error = MessageOr(ApiErrorMessage("set_storage", failure),
                                            "Failed to set storage location")]
                ELSE panel
    /\ last' = Op("handleSetStorageRejected", inflight[i].id,
                  [failure |-> failure, live |-> inflight[i].live])
    /\ inflight' = Remove(inflight, i)
    /\ sent' = <<>>
    /\ UNCHANGED <<tasks, shelves, robots, selected>>
    /\ CtxFrame

NextCtx ==
    \/ \E l \in TaskSnapshots : setTasks(l)
    \/ \E l \in ShelfSnapshots : setShelves(l)
    \/ \E l \in RobotSnapshots : setRobots(l)
    \/ \E id \in {"t1", "t9"} : traffic = "tasks" /\ updateTaskStatus(id, "COMPLETED")
    \/ \E id \in {"r1", "r9"} : traffic = "robots" /\ setRobotPosition(id, "2", "1")
    \/ \E a \in SetShelfCurrentCalls :
          traffic = "shelves" /\ setShelfCurrent(a[1], a[2].x, a[2].y, a[3])
    \/ \E id \in {"s1"} : traffic = "none" /\ SelectShelf(id)
    \/ onClose
    \/ \E b \in BOOLEAN : ShowStorageForm(b)
    \/ setStorageCoords("storage_x", "2")
    \/ handleRestore
    \/ \E b \in BOOLEAN : handleSetStorage(b)
    \/ \E i \in 1..MaxInflight : handleRestoreResolved(i)
    \/ \E i \in 1..MaxInflight, failure \in Failures : handleRestoreRejected(i, failure)
    \/ \E i \in 1..MaxInflight, cur \in {Away, InitialStorage["s1"]} :
          handleSetStorageResolved(i, cur)
    \/ \E i \in 1..MaxInflight, failure \in Failures : handleSetStorageRejected(i, failure)

-----------------------------------------------------------------------------
(* pages/Map: WarehouseMap, state mapData *)

\* Array.prototype.map and find
SeqMap(seq, F(_)) == [i \in DOMAIN seq |-> F(seq[i])]
Exists(seq, P(_)) == \E i \in DOMAIN seq : P(seq[i])
Find(seq, P(_)) == seq[CHOOSE i \in DOMAIN seq : P(seq[i]) /\ \A j \in 1..(i - 1) : ~P(seq[j])]

\* a payload or document that carries the fields of `fields` and no other
PayloadFields ==
    {"id", "robot_id", "robot", "shelf_id", "name", "x", "y", "yaw",
     "current_x", "current_y", "current_yaw", "storage_x", "storage_y", "storage_yaw",
     "status", "cpu_usage", "ram_usage", "battery_level", "temperature",
     "warehouse_id", "level", "available"}
Payload(fields) == [f \in PayloadFields |-> IF f \in DOMAIN fields THEN fields[f] ELSE UNDEFINED]

\* value !== undefined ? value : fallback
Defined(value, fallback) == IF value # UNDEFINED THEN value ELSE fallback

\* { ...old, x: r.x !== undefined ? r.x : r.current_x, y: ..., yaw: ... }
withPosition(old, r) ==
    [old EXCEPT !.x = Defined(r.x, r.current_x),
                !.y = Defined(r.y, r.current_y),
                !.yaw = Defined(r.yaw, r.current_yaw)]

\* loadInitialData: the alias mapping of robots and shelves
mapAliases(r) == withPosition(r, r)

\* the onTelemetry callback: setMapData((prev) => ...)
MapOnTelemetry(prev, data) ==
    LET robotId == OrElse(OrElse(data.robot_id, data.robot), data.id)
        x == Defined(data.x, data.current_x)
        y == Defined(data.y, data.current_y)
        yaw == Defined(data.yaw, Coalesce(data.current_yaw, "0"))
        match(r) == r.id = robotId \/ r.robot_id = robotId
        patch(r) ==
            IF match(r)
            THEN [r EXCEPT !.x = Number(x), !.y = Number(y), !.yaw = Number(yaw),
                           !.current_x = Number(x), !.current_y = Number(y),
                           !.current_yaw = Number(yaw),
                           !.status = Coalesce(data.status, r.status),
                           !.cpu_usage = IF data.cpu_usage # UNDEFINED
                                         THEN Number(data.cpu_usage) ELSE r.cpu_usage,
                           !.ram_usage = IF data.ram_usage # UNDEFINED
                                         THEN Number(data.ram_usage) ELSE r.ram_usage,
                           !.battery_level = IF data.battery_level # UNDEFINED
                                             THEN Number(data.battery_level) ELSE r.battery_level,
                           !.temperature = IF data.temperature # UNDEFINED
                                           THEN Number(data.temperature) ELSE r.temperature]
            ELSE r
    IN  IF Truthy(robotId) /\ x # UNDEFINED /\ y # UNDEFINED
        THEN IF prev = NullObject THEN prev
             ELSE IF ~Exists(prev.robots, match) THEN prev
             ELSE [prev EXCEPT !.robots = SeqMap(prev.robots, patch)]
        ELSE prev

\* the onRobotUpdate callback: setMapData((prev) => ...)
MapOnRobotUpdate(prev, data) ==
    LET match(r) == r.id = data.robot_id \/ r.robot_id = data.robot_id \/ r.id = data.id
        patch(r) ==
            IF match(r)
            THEN [r EXCEPT !.x = Defined(data.x, Defined(data.current_x, r.x)),
                           !.y = Defined(data.y, Defined(data.current_y, r.y)),
                           !.yaw = Defined(data.yaw, Defined(data.current_yaw, r.yaw)),
                           !.status = Coalesce(data.status, r.status),
                           !.cpu_usage = IF data.cpu_usage # UNDEFINED
                                         THEN Number(data.cpu_usage) ELSE r.cpu_usage,
                           !.ram_usage = IF data.ram_usage # UNDEFINED
                                         THEN Number(data.ram_usage) ELSE r.ram_usage,
                           !.battery_level = IF data.battery_level # UNDEFINED
                                             THEN Number(data.battery_level) ELSE r.battery_level,
                           !.temperature = IF data.temperature # UNDEFINED
                                           THEN Number(data.temperature) ELSE r.temperature]
            ELSE r
    IN  IF prev = NullObject THEN prev
        ELSE [prev EXCEPT !.robots = SeqMap(prev.robots, patch)]

\* an onShelfUpdate that merges the whole payload into the shelf
MapOnShelfUpdateMerging(prev, data) ==
    LET patch(s) ==
            IF s.id = data.shelf_id
            THEN [f \in DOMAIN s |-> IF data[f] # UNDEFINED THEN data[f] ELSE s[f]]
            ELSE s
    IN  IF prev = NullObject THEN prev
        ELSE [prev EXCEPT !.shelves = SeqMap(prev.shelves, patch)]

\* the onShelfUpdate callback: setMapData((prev) => ...)
MapOnShelfUpdate(prev, data) ==
    LET patch(s) ==
            IF s.id = data.shelf_id
            THEN [s EXCEPT !.x = Defined(data.x, Defined(data.current_x, s.x)),
                           !.y = Defined(data.y, Defined(data.current_y, s.y)),
                           !.current_x = Defined(data.x, Defined(data.current_x, s.current_x)),
                           !.current_y = Defined(data.y, Defined(data.current_y, s.current_y)),
                           !.current_yaw = Defined(data.yaw, Defined(data.current_yaw, s.current_yaw))]
            ELSE s
    IN  IF prev = NullObject THEN prev
        ELSE [prev EXCEPT !.shelves = SeqMap(prev.shelves, patch)]

\* a merge that takes the polled document whole
mergePolledWhole(old, r) == r

\* positionRefreshInterval: the merge of one polled document into the list
mergePolled(old, r) ==
    LET same(o) == o.id = r.id
    IN  IF ~Exists(old, same) THEN r ELSE withPosition(Find(old, same), r)

\* positionRefreshInterval: setMapData((prev) => ...)
MapPositionRefresh(prev, robotsData, shelvesData) ==
    IF prev = NullObject THEN prev
    ELSE LET mergeRobot(r) == mergePolled(prev.robots, r)
             mergeShelf(s) == mergePolled(prev.shelves, s)
         IN  [prev EXCEPT !.robots = SeqMap(robotsData, mergeRobot),
                          !.shelves = SeqMap(shelvesData, mergeShelf)]

\* a task merge that takes the polled document whole
mergePolledTaskWhole(old, t) == t

\* taskStatusInterval: the merge of one polled task into the list
mergePolledTask(old, t) ==
    LET same(o) == o.id = t.id
    IN  IF ~Exists(old, same) THEN t ELSE [Find(old, same) EXCEPT !.status = t.status]

\* taskStatusInterval: setMapData((prev) => ...)
MapTaskStatusRefresh(prev, tasksData) ==
    IF prev = NullObject THEN prev
    ELSE LET merge(t) == mergePolledTask(prev.tasks, t)
         IN  [prev EXCEPT !.tasks = SeqMap(tasksData, merge)]

(* Documents of the REST API, after sanitizeDocs *)

NoPosition == Coordinates(UNDEFINED, UNDEFINED, UNDEFINED)

\* a robot document: the backend keeps the position as current_*
ApiRobot(n, cur) ==
    Payload([id |-> "r" \o n, robot_id |-> "R" \o n, name |-> "robot" \o n,
             current_x |-> cur.x, current_y |-> cur.y, current_yaw |-> cur.yaw,
             status |-> "IDLE", cpu_usage |-> "1", ram_usage |-> "1",
             battery_level |-> "2", temperature |-> "1"])

\* a shelf document: current_* and storage_*
ApiShelf(n, cur, storage) ==
    Payload([id |-> "s" \o n, warehouse_id |-> "w" \o n, level |-> "1", available |-> "true",
             current_x |-> cur.x, current_y |-> cur.y, current_yaw |-> cur.yaw,
             storage_x |-> storage.x, storage_y |-> storage.y, storage_yaw |-> storage.yaw,
             status |-> "IDLE"])

ApiTask(status) == [id |-> "t1", status |-> status, shelf_id |-> "s1", priority |-> "1"]

(* Push payloads and REST responses *)

\* robot payloads of the `telemetry` and `robot_update` events
PositionOnly == Payload([robot_id |-> "R1", x |-> "2", y |-> "2"])
BatteryOnly == Payload([robot_id |-> "R1", battery_level |-> "1"])
IdOnly == Payload([robot_id |-> "R1"])
FullTelemetry ==
    Payload([robot_id |-> "R1", x |-> "2", y |-> "1", yaw |-> "2", status |-> "BUSY",
             battery_level |-> "1", cpu_usage |-> "2"])
AliasPosition ==
    Payload([robot |-> "R1", current_x |-> "2", current_y |-> "2", current_yaw |-> "2"])
NullPosition == Payload([robot_id |-> "R1", x |-> NULL, y |-> "2", yaw |-> "2"])
BadBattery == Payload([robot_id |-> "R1", battery_level |-> BadString])
SecondRobot == Payload([id |-> "r2", x |-> "2", y |-> "2", yaw |-> "2"])
UnknownRobot ==
    Payload([robot_id |-> "R9", id |-> "r9", name |-> "robot9", x |-> "2", y |-> "2",
             yaw |-> "2", status |-> "BUSY", battery_level |-> "1"])
\* a payload whose robot_id is the first robot's and whose id is the second's
CrossedIds == Payload([robot_id |-> "R1", id |-> "r2", x |-> "2", y |-> "2", yaw |-> "2"])
RobotPayloads ==
    {PositionOnly, BatteryOnly, IdOnly, FullTelemetry, AliasPosition, NullPosition,
     BadBattery, SecondRobot, UnknownRobot, CrossedIds}

\* shelf payloads of the `shelf_update` and `shelf_location_update` events
ShelfMoved ==
    Payload([id |-> "s1", shelf_id |-> "s1", current_x |-> "2", current_y |-> "1",
             current_yaw |-> "1"])
ShelfDocument ==
    Payload([id |-> "s1", shelf_id |-> "s1", current_x |-> "2", current_y |-> "2",
             storage_x |-> "0", storage_y |-> "0", status |-> "BUSY"])
ShelfStatusOnly == Payload([id |-> "s1", shelf_id |-> "s1", status |-> "BUSY"])
UnknownShelf ==
    Payload([id |-> "s9", shelf_id |-> "s9", x |-> "2", y |-> "2", current_x |-> "2",
             current_y |-> "2", current_yaw |-> "1", status |-> "BUSY"])
ShelfPayloads == {ShelfMoved, ShelfDocument, ShelfStatusOnly, UnknownShelf}

\* x.catch(() => [])
Failed == <<>>

\* GET /robots: a failed request, or the two robots, the first at any of three
\* positions (one of them not yet known to the backend)
RobotsAt(cur) == <<ApiRobot("1", cur), ApiRobot("2", Coordinates("1", "1", "1"))>>
RobotLists ==
    IF traffic = "robots"
    THEN {RobotsAt(cur) : cur \in {Coordinates("1", "1", "1"), Coordinates("2", "2", "2"),
                                   NoPosition}} \cup {Failed}
    ELSE {RobotsAt(Coordinates("1", "1", "1"))}

\* GET /shelves: the two shelves with the backend's storage, the first at its
\* storage, away from it, or without a position
ShelvesAt(cur) ==
    <<ApiShelf("1", cur, srvStorage["s1"]), ApiShelf("2", srvStorage["s2"], srvStorage["s2"])>>
ShelfLists ==
    IF traffic = "shelves"
    THEN {ShelvesAt(cur) : cur \in {srvStorage["s1"], Away, NoPosition}} \cup {Failed}
    ELSE {ShelvesAt(srvStorage["s1"])}

\* the task after the backend completed it and changed its priority
Reprioritised == [ApiTask("COMPLETED") EXCEPT !.priority = "2"]

\* GET /tasks
TaskLists ==
    IF traffic = "tasks"
    THEN {<<ApiTask("PENDING")>>, <<ApiTask("COMPLETED")>>, <<Reprioritised>>, Failed}
    ELSE {<<ApiTask("PENDING")>>}

\* the storage another administrator gives s1
OtherStorage == Coordinates("2", "2", "0")

-----------------------------------------------------------------------------
(* pages/Map: actions *)

MapFrame ==
    UNCHANGED <<view, traffic, ctx, robotList, shelfList, editingShelf, formData, selectedShelf,
                inflight, rest>>

\* loadInitialData, from the responses on; mapResponse absent leaves mapData alone
loadInitialData(mapResponse, robotsData, shelvesData, tasksData) ==
    /\ view = "map"
    /\ mapData = NullObject
    /\ mapData' = IF mapResponse
                  THEN [robots |-> SeqMap(robotsData, mapAliases),
                        shelves |-> SeqMap(shelvesData, mapAliases),
                        tasks |-> tasksData]
                  ELSE mapData
    /\ last' = Op("loadInitialData", "", [mapResponse |-> mapResponse])
    /\ sent' = <<>>
    /\ UNCHANGED srvStorage
    /\ MapFrame

\* socket.on('telemetry'): the telemetry callbacks, then the robot_update callbacks
MapTelemetry(data) ==
    /\ view = "map"
    /\ mapData' = MapOnRobotUpdate(MapOnTelemetry(mapData, data), data)
    /\ last' = Op("telemetry", "", data)
    /\ sent' = <<>>
    /\ UNCHANGED srvStorage
    /\ MapFrame

\* socket.on('robot_update') and socket.on('robot_position_update'): the
\* robot_update callbacks
MapRobotUpdate(data) ==
    /\ view = "map"
    /\ mapData' = MapOnRobotUpdate(mapData, data)
    /\ last' = Op("robot_update", "", data)
    /\ sent' = <<>>
    /\ UNCHANGED srvStorage
    /\ MapFrame

\* socket.on('shelf_update'): the shelf_update callbacks
MapShelfUpdate(data) ==
    /\ view = "map"
    /\ mapData' = MapOnShelfUpdate(mapData, data)
    /\ last' = Op("shelf_update", "", data)
    /\ sent' = <<>>
    /\ UNCHANGED srvStorage
    /\ MapFrame

\* one tick of positionRefreshInterval, from the responses on
positionRefreshInterval(robotsData, shelvesData) ==
    /\ view = "map"
    /\ mapData' = MapPositionRefresh(mapData, robotsData, shelvesData)
    /\ last' = Op("positionRefreshInterval", "", [robots |-> robotsData, shelves |-> shelvesData])
    /\ sent' = <<>>
    /\ UNCHANGED srvStorage
    /\ MapFrame

\* one tick of taskStatusInterval, from the response on
taskStatusInterval(tasksData) ==
    /\ view = "map"
    /\ mapData' = MapTaskStatusRefresh(mapData, tasksData)
    /\ last' = Op("taskStatusInterval", "", [tasks |-> tasksData])
    /\ sent' = <<>>
    /\ UNCHANGED srvStorage
    /\ MapFrame

\* another session's set-storage reaches the backend
setStorageLocationElsewhere ==
    /\ view \in {"map", "shelves"}
    /\ traffic = "shelves"
    /\ srvStorage["s1"] # OtherStorage
    /\ srvStorage' = [srvStorage EXCEPT !["s1"] = OtherStorage]
    /\ last' = Op("setStorageLocationElsewhere", "s1", <<>>)
    /\ sent' = <<>>
    /\ UNCHANGED <<view, traffic, ctx, pages, inflight, rest>>

\* the cleanup of the page's effect: the callbacks are unregistered, both
\* intervals are cleared and the state of the component is dropped
MapCleanup ==
    /\ view = "map"
    /\ view' = "gone"
    /\ mapData' = NullObject
    /\ last' = Op("cleanup", "", <<>>)
    /\ sent' = <<>>
    /\ UNCHANGED <<traffic, ctx, robotList, shelfList, editingShelf, formData, selectedShelf,
                   inflight, srvStorage, rest>>

\* the response of a poll that was awaited at the cleanup: setMapData of the
\* unmounted component sets nothing
lateResponse(name) ==
    /\ view = "gone"
    /\ last.op = "cleanup"
    /\ last' = Op(name, "", [late |-> TRUE])
    /\ sent' = <<>>
    /\ UNCHANGED <<view, traffic, ctx, pages, inflight, srvStorage, rest>>

NextMap ==
    \/ MapCleanup
    \/ \E name \in {"positionRefreshInterval", "taskStatusInterval"} : lateResponse(name)
    \/ \E mapResponse \in BOOLEAN, robotsData \in RobotLists,
          shelvesData \in ShelfLists, tasksData \in TaskLists :
          loadInitialData(mapResponse, robotsData, shelvesData, tasksData)
    \/ \E data \in RobotPayloads : traffic = "robots" /\ MapTelemetry(data)
    \/ \E data \in RobotPayloads : traffic = "robots" /\ MapRobotUpdate(data)
    \/ \E data \in ShelfPayloads : traffic = "shelves" /\ MapShelfUpdate(data)
    \/ \E robotsData \in RobotLists, shelvesData \in ShelfLists :
          positionRefreshInterval(robotsData, shelvesData)
    \/ \E tasksData \in TaskLists : taskStatusInterval(tasksData)
    \/ setStorageLocationElsewhere

-----------------------------------------------------------------------------
(* pages/Robots: Robots, state robotList *)

\* the record a robot event leaves of a matching robot (both callbacks)
robotsPatch(r, data) ==
    LET pick(a, b, old) ==
            IF a # UNDEFINED THEN Number(a) ELSE IF b # UNDEFINED THEN Number(b) ELSE old
        sensor(a, old) == IF a # UNDEFINED THEN Number(a) ELSE old
    IN  [r EXCEPT !.x = pick(data.x, data.current_x, r.x),
                  !.y = pick(data.y, data.current_y, r.y),
                  !.yaw = pick(data.yaw, data.current_yaw, r.yaw),
                  !.current_x = pick(data.x, data.current_x, r.current_x),
                  !.current_y = pick(data.y, data.current_y, r.current_y),
                  !.current_yaw = pick(data.yaw, data.current_yaw, r.current_yaw),
                  !.cpu_usage = sensor(data.cpu_usage, r.cpu_usage),
                  !.ram_usage = sensor(data.ram_usage, r.ram_usage),
                  !.battery_level = sensor(data.battery_level, r.battery_level),
                  !.temperature = sensor(data.temperature, r.temperature),
                  !.status = Defined(data.status, r.status)]

\* the onTelemetry callback: setRobotList((prev) => ...)
RobotsOnTelemetry(prev, data) ==
    LET isMatch(r) ==
            \/ r.robot_id = data.robot_id
            \/ r.robot_id = data.robot
            \/ r.name = data.name
            \/ r.id = data.id
            \/ r.robot_id = data.id
        patch(r) == IF isMatch(r) THEN robotsPatch(r, data) ELSE r
    IN  SeqMap(prev, patch)

\* the onRobotUpdate callback: setRobotList((prev) => ...)
RobotsOnRobotUpdate(prev, data) ==
    LET isMatch(r) ==
            \/ r.robot_id = data.robot_id
            \/ r.robot_id = data.robot
            \/ r.id = data.robot_id
            \/ r.id = data.id
        patch(r) == IF isMatch(r) THEN robotsPatch(r, data) ELSE r
    IN  SeqMap(prev, patch)

\* positionInterval: setRobotList((prev) => ...)
RobotsPositionRefresh(prev, updated) ==
    LET merge(robot) ==
            LET same(r) == r.id = robot.id
            IN  IF Exists(updated, same) THEN withPosition(robot, Find(updated, same)) ELSE robot
    IN  SeqMap(prev, merge)

RobotsFrame ==
    UNCHANGED <<view, traffic, ctx, mapData, shelfList, editingShelf, formData, selectedShelf,
                inflight, srvStorage, rest>>

\* loadRobots, from the response on
loadRobots(ok, data) ==
    /\ view = "robots"
    /\ robotList' = IF ok THEN SeqMap(data, mapAliases) ELSE <<>>
    /\ last' = Op("loadRobots", "", [ok |-> ok])
    /\ sent' = <<>>
    /\ RobotsFrame

\* socket.on('telemetry'): the telemetry callbacks, then the robot_update callbacks
RobotsTelemetry(data) ==
    /\ view = "robots"
    /\ robotList' = RobotsOnRobotUpdate(RobotsOnTelemetry(robotList, data), data)
    /\ last' = Op("telemetry", "", data)
    /\ sent' = <<>>
    /\ RobotsFrame

\* socket.on('robot_update') and socket.on('robot_position_update')
RobotsRobotUpdate(data) ==
    /\ view = "robots"
    /\ robotList' = RobotsOnRobotUpdate(robotList, data)
    /\ last' = Op("robot_update", "", data)
    /\ sent' = <<>>
    /\ RobotsFrame

\* one tick of positionInterval, from the response on; a rejected request is ignored
positionInterval(ok, updated) ==
    /\ view = "robots"
    /\ robotList' = IF ok THEN RobotsPositionRefresh(robotList, updated) ELSE robotList
    /\ last' = Op("positionInterval", "", [ok |-> ok, robots |-> updated])
    /\ sent' = <<>>
    /\ RobotsFrame

NextRobots ==
    \/ \E ok \in BOOLEAN, data \in RobotLists \ {Failed} : loadRobots(ok, data)
    \/ \E data \in RobotPayloads : RobotsTelemetry(data)
    \/ \E data \in RobotPayloads : RobotsRobotUpdate(data)
    \/ \E ok \in BOOLEAN, updated \in RobotLists \ {Failed} : positionInterval(ok, updated)

-----------------------------------------------------------------------------
(* pages/Shelves: Shelves, state shelfList and the two modals *)

\* { ...s, ...data }: the keys data carries replace those of s
Spread(s, data) == [f \in DOMAIN s |-> IF data[f] # UNDEFINED THEN data[f] ELSE s[f]]

\* socket.on('shelf_update'): setShelfList((prev) => ...)
ShelvesOnShelfUpdate(prev, data) ==
    LET merge(s) == IF s.id = data.id THEN Spread(s, data) ELSE s
    IN  SeqMap(prev, merge)

\* { ...s, current_x: data.current_x, current_y: data.current_y, current_yaw: data.current_yaw }
withCurrent(s, data) ==
    [s EXCEPT !.current_x = data.current_x,
              !.current_y = data.current_y,
              !.current_yaw = data.current_yaw]

\* socket.on('shelf_location_update'): setShelfList((prev) => ...)
ShelvesOnShelfLocationUpdate(prev, data) ==
    LET move(s) == IF s.id = data.id THEN withCurrent(s, data) ELSE s
    IN  SeqMap(prev, move)

\* socket.on('shelf_location_update'): the detail modal's shelf
selectedShelfAfter(prev, data) ==
    IF prev # NullObject /\ prev.id = data.id THEN withCurrent(prev, data) ELSE prev

\* socket.on('shelf_deleted'): setShelfList((prev) => prev.filter(...))
ShelvesOnShelfDeleted(prev, data) ==
    LET keep(s) == s.id # data.id
    IN  SelectSeq(prev, keep)

\* validateForm, for the fields the form can hold here: storage x and y come together
validateForm(form) ==
    IF form.storage_x # UNDEFINED /\ form.storage_y = UNDEFINED
    THEN "If Storage X is provided, Storage Y must also be provided"
    ELSE IF form.storage_x = UNDEFINED /\ form.storage_y # UNDEFINED
    THEN "If Storage Y is provided, Storage X must also be provided"
    ELSE NULL

\* handleSubmit, edit branch: the requests it issues, in order
submitRequests(form, editing) ==
    LET currentLocChanged ==
            \/ form.current_x # editing.current_x
            \/ form.current_y # editing.current_y
            \/ form.current_yaw # editing.current_yaw
        storageLocChanged ==
            \/ form.storage_x # editing.storage_x
            \/ form.storage_y # editing.storage_y
            \/ form.storage_yaw # editing.storage_yaw
    IN  (IF currentLocChanged
         THEN <<[kind |-> "update_current", id |-> editing.id,
                 coords |-> Coordinates(Number(form.current_x), Number(form.current_y),
                                        OrElse(Number(form.current_yaw), "0"))]>>
         ELSE <<>>)
        \o
        (IF storageLocChanged /\ form.storage_x # UNDEFINED /\ form.storage_y # UNDEFINED
         THEN <<[kind |-> "set_storage", id |-> editing.id,
                 coords |-> Coordinates(Number(form.storage_x), Number(form.storage_y),
                                        OrElse(Number(form.storage_yaw), "0"))]>>
         ELSE <<>>)

\* the backend's storage after the requests
storageAfter(storage, reqs) ==
    IF \E i \in DOMAIN reqs : reqs[i].kind = "set_storage"
    THEN LET req == reqs[CHOOSE i \in DOMAIN reqs : reqs[i].kind = "set_storage"]
         IN  [storage EXCEPT ![req.id] = req.coords]
    ELSE storage

ShelvesFrame == UNCHANGED <<view, traffic, ctx, mapData, robotList, rest>>

\* loadShelves, up to its await
loadShelves ==
    /\ view = "shelves"
    /\ Len(inflight) < MaxInflight
    /\ inflight' = Append(inflight, [kind |-> "list", closeModal |-> FALSE])
    /\ sent' = <<[kind |-> "list", id |-> ""]>>
    /\ last' = Op("loadShelves", "", <<>>)
    /\ UNCHANGED <<shelfList, editingShelf, formData, selectedShelf, srvStorage>>
    /\ ShelvesFrame

\* loadShelves after its await; handleSubmit goes on to closeModal
loadShelvesSettled(i, ok, data) ==
    /\ view = "shelves"
    /\ i \in DOMAIN inflight
    /\ inflight[i].kind = "list"
    /\ shelfList' = IF ok THEN data ELSE <<>>
    /\ IF inflight[i].closeModal
       THEN editingShelf' = NullObject /\ formData' = initialFormData
       ELSE UNCHANGED <<editingShelf, formData>>
    /\ inflight' = Remove(inflight, i)
    /\ sent' = <<>>
    /\ last' = Op("loadShelvesSettled", "", [ok |-> ok])
    /\ UNCHANGED <<selectedShelf, srvStorage>>
    /\ ShelvesFrame

\* openModal(shelf), behind no other modal
openModal(shelf) ==
    /\ view = "shelves"
    /\ editingShelf = NullObject /\ selectedShelf = NullObject
    /\ editingShelf' = shelf
    /\ formData' = [warehouse_id |-> OrElse(shelf.warehouse_id, ""),
                    current_x |-> OrElse(shelf.current_x, "0"),
                    current_y |-> OrElse(shelf.current_y, "0"),
                    current_yaw |-> OrElse(shelf.current_yaw, "0"),
                    level |-> OrElse(shelf.level, "1"),
                    available |-> Defined(shelf.available, "true"),
                    status |-> OrElse(shelf.status, "IDLE"),
                    storage_x |-> shelf.storage_x,
                    storage_y |-> shelf.storage_y,
                    storage_yaw |-> shelf.storage_yaw]
    /\ sent' = <<>>
    /\ last' = Op("openModal", shelf.id, <<>>)
    /\ UNCHANGED <<shelfList, selectedShelf, inflight, srvStorage>>
    /\ ShelvesFrame

closeModal ==
    /\ view = "shelves"
    /\ editingShelf # NullObject
    /\ editingShelf' = NullObject
    /\ formData' = initialFormData
    /\ sent' = <<>>
    /\ last' = Op("closeModal", "", <<>>)
    /\ UNCHANGED <<shelfList, selectedShelf, inflight, srvStorage>>
    /\ ShelvesFrame

\* a storage input of the form: e.target.value ? Number(e.target.value) : undefined
setFormData(field, value) ==
    /\ view = "shelves"
    /\ editingShelf # NullObject
    /\ formData' = [formData EXCEPT ![field] = IF value = "" THEN UNDEFINED ELSE Number(value)]
    /\ formData' # formData
    /\ sent' = <<>>
    /\ last' = Op("setFormData", field, [value |-> value])
    /\ UNCHANGED <<shelfList, editingShelf, selectedShelf, inflight, srvStorage>>
    /\ ShelvesFrame

\* handleSubmit of the edit form, up to its await of loadShelves; `ok` tells
\* whether the backend accepts the requests (the first one fails otherwise)
handleSubmit(ok) ==
    /\ view = "shelves"
    /\ editingShelf # NullObject
    /\ LET reqs == submitRequests(formData, editingShelf)
       IN  IF validateForm(formData) # NULL
           THEN /\ ok
                /\ sent' = <<>>
                /\ UNCHANGED <<inflight, srvStorage>>
           ELSE IF ok
           THEN /\ Len(inflight) < MaxInflight
                /\ sent' = reqs \o <<[kind |-> "list", id |-> ""]>>
                /\ srvStorage' = storageAfter(srvStorage, reqs)
                /\ inflight' = Append(inflight, [kind |-> "list", closeModal |-> TRUE])
           ELSE /\ reqs # <<>>
                /\ sent' = <<reqs[1]>>
                /\ UNCHANGED <<inflight, srvStorage>>
    /\ last' = Op("handleSubmit", editingShelf.id, [ok |-> ok])
    /\ UNCHANGED <<shelfList, editingShelf, formData, selectedShelf>>
    /\ ShelvesFrame

\* openDetailModal(shelf), behind no other modal
openDetailModal(shelf) ==
    /\ view = "shelves"
    /\ editingShelf = NullObject /\ selectedShelf = NullObject
    /\ selectedShelf' = shelf
    /\ sent' = <<>>
    /\ last' = Op("openDetailModal", shelf.id, <<>>)
    /\ UNCHANGED <<shelfList, editingShelf, formData, inflight, srvStorage>>
    /\ ShelvesFrame

closeDetailModal ==
    /\ view = "shelves"
    /\ selectedShelf # NullObject
    /\ selectedShelf' = NullObject
    /\ sent' = <<>>
    /\ last' = Op("closeDetailModal", "", <<>>)
    /\ UNCHANGED <<shelfList, editingShelf, formData, inflight, srvStorage>>
    /\ ShelvesFrame

\* socket.on('shelf_update')
ShelvesShelfUpdate(data) ==
    /\ view = "shelves"
    /\ shelfList' = ShelvesOnShelfUpdate(shelfList, data)
    /\ sent' = <<>>
    /\ last' = Op("shelf_update", "", data)
    /\ UNCHANGED <<editingShelf, formData, selectedShelf, inflight, srvStorage>>
    /\ ShelvesFrame

\* socket.on('shelf_location_update')
ShelvesShelfLocationUpdate(data) ==
    /\ view = "shelves"
    /\ shelfList' = ShelvesOnShelfLocationUpdate(shelfList, data)
    /\ selectedShelf' = selectedShelfAfter(selectedShelf, data)
    /\ sent' = <<>>
    /\ last' = Op("shelf_location_update", "", data)
    /\ UNCHANGED <<editingShelf, formData, inflight, srvStorage>>
    /\ ShelvesFrame

\* socket.on('shelf_deleted')
ShelvesShelfDeleted(data) ==
    /\ view = "shelves"
    /\ shelfList' = ShelvesOnShelfDeleted(shelfList, data)
    /\ sent' = <<>>
    /\ last' = Op("shelf_deleted", "", data)
    /\ UNCHANGED <<editingShelf, formData, selectedShelf, inflight, srvStorage>>
    /\ ShelvesFrame

NextShelves ==
    \/ loadShelves
    \/ \E i \in 1..MaxInflight, ok \in BOOLEAN, data \in ShelfLists \ {Failed} :
          loadShelvesSettled(i, ok, data)
    \/ \E i \in DOMAIN shelfList :
          traffic = "none" /\ shelfList[i].id = "s1" /\ openModal(shelfList[i])
    \/ closeModal
    \/ \E value \in {"2", ""} : setFormData("storage_x", value)
    \/ \E ok \in BOOLEAN : handleSubmit(ok)
    \/ \E i \in DOMAIN shelfList :
          traffic = "shelves" /\ shelfList[i].id = "s1" /\ openDetailModal(shelfList[i])
    \/ closeDetailModal
    \/ \E data \in ShelfPayloads : traffic = "shelves" /\ ShelvesShelfUpdate(data)
    \/ \E data \in ShelfPayloads : traffic = "shelves" /\ ShelvesShelfLocationUpdate(data)
    \/ traffic = "shelves" /\ ShelvesShelfDeleted(Payload([id |-> "s2"]))
    \/ setStorageLocationElsewhere

-----------------------------------------------------------------------------
(* hooks/useTaskSocket: the socket of the task map and the store it feeds *)

\* the sockets io() creates for one hook, and the snapshot fetches in flight
MaxSockets == 2
MaxFetches == 1

\* socketRef.current = null
NoSocket == 0

\* the hook after its mount effect has run connect()
MountedHook ==
    [mounted |-> TRUE, socketRef |-> 1, isConnected |-> FALSE, error |-> NULL,
     reconnectCount |-> 0]
\* no hook in the tree
NoHook ==
    [mounted |-> FALSE, socketRef |-> NoSocket, isConnected |-> FALSE, error |-> NULL,
     reconnectCount |-> 0]

\* io(socketUrl, { reconnection: true, ... }): a socket on its way to a connection
NewSocket(delay) == [state |-> "connecting", subs |-> {}, reconnectionDelay |-> delay]

BASE_RECONNECT_DELAY == 1000
MaxReconnectDelay == 30000

\* Math.pow(2, n)
RECURSIVE Pow2(_)
Pow2(n) == IF n = 0 THEN 1 ELSE 2 * Pow2(n - 1)

\* Math.min(a, b)
Min(a, b) == IF a < b THEN a ELSE b

\* getReconnectDelay() with reconnectCountRef.current = count
getReconnectDelay(count) == Min(BASE_RECONNECT_DELAY * Pow2(count), MaxReconnectDelay)

\* socketRef.current?.connected
RefConnected == hook.socketRef # NoSocket /\ sockets[hook.socketRef].state = "connected"

\* a state setter of the hook: it has no effect once the hook is unmounted
SetState(h, field, value) == IF h.mounted THEN [h EXCEPT ![field] = value] ELSE h

\* the backend's record of s1 and the task that carries it
HookShelf == ServerShelf("s1", srvCurrent, srvStorage["s1"])
HookTask(status) ==
    [task_id |-> "t1", status |-> status, task_type |-> "MOVE_SHELF",
     shelf |-> [id |-> "s1", storage |-> srvStorage["s1"], current |-> srvCurrent]]

(* The owner of the hook hands it the MapProvider operations as callbacks *)

Store == [tasks |-> tasks, shelves |-> shelves, robots |-> robots]

\* onAllTasksUpdate: the bulk replace of the tasks
onAllTasksUpdate(store, list) == [store EXCEPT !.tasks = MapOfList(list, "task_id")]

\* onMapDataUpdate: the bulk replace of the tasks and of the lists the payload carries
onMapDataUpdate(store, data) ==
    [tasks |-> MapOfList(data.tasks, "task_id"),
     shelves |-> IF data.shelves # UNDEFINED THEN MapOfList(data.shelves, "id")
                 ELSE store.shelves,
     robots |-> IF data.robots # UNDEFINED THEN MapOfList(data.robots, "id")
                ELSE store.robots]

\* onTaskUpdate: setTask
onTaskUpdate(store, task) == [store EXCEPT !.tasks = MapSet(store.tasks, task.task_id, task)]

\* onTaskStatusChange: updateTaskStatus
onTaskStatusChange(store, data) ==
    [store EXCEPT !.tasks = updateTaskStatusUpdater(store.tasks, data.task_id, data.new_status)]

\* onShelfLocationFixed: setShelfCurrent
onShelfLocationFixed(store, data) ==
    [store EXCEPT !.shelves =
        setShelfCurrentUpdater(store.shelves, data.shelf_id, data.x, data.y,
                               data.location_status)]

\* onRobotPositionUpdate: setRobotPosition
onRobotPositionUpdate(store, data) ==
    [store EXCEPT !.robots =
        setRobotPositionUpdater(store.robots, data.robot.id, data.robot.x, data.robot.y)]

HookFrame ==
    UNCHANGED <<view, traffic, selected, panel, pages, inflight, srvStorage, sent, reg, taskList>>

StoreBecomes(store) ==
    /\ tasks' = store.tasks
    /\ shelves' = store.shelves
    /\ robots' = store.robots

(* The connection *)

\* connect(), exported as reconnect: nothing while the socket of socketRef is
\* connected, else a new socket whose handlers are registered
connect ==
    /\ view = "hook"
    /\ hook.mounted
    /\ ~RefConnected
    /\ Len(sockets) < MaxSockets
    /\ sockets' = Append(sockets, NewSocket(getReconnectDelay(hook.reconnectCount)))
    /\ hook' = [hook EXCEPT !.socketRef = Len(sockets) + 1]
    /\ last' = Op("connect", Len(sockets) + 1, [callbacks |-> <<>>])
    /\ UNCHANGED <<tasks, shelves, robots, fetches, missed, wanted, srvCurrent>>
    /\ HookFrame

\* socket.on('connect')
socketOnConnect(k) ==
    /\ view = "hook"
    /\ sockets[k].state = "connecting"
    /\ Len(fetches) < MaxFetches
    /\ sockets' = [sockets EXCEPT ![k].state = "connected"]
    /\ hook' = [SetState(SetState(hook, "isConnected", TRUE), "error", NULL)
                    EXCEPT !.reconnectCount = 0]
    /\ fetches' = Append(fetches, [socket |-> k, afterMiss |-> missed])
    /\ last' = Op("socket.connect", k, [callbacks |-> <<"onConnected">>])
    /\ UNCHANGED <<tasks, shelves, robots, wanted, srvCurrent, missed>>
    /\ HookFrame

\* socket.on('disconnect') when the connection drops: the socket starts to
\* reconnect, and nothing has been emitted on the connection it will make
socketOnDisconnect(k) ==
    /\ view = "hook"
    /\ sockets[k].state = "connected"
    /\ sockets' = [sockets EXCEPT ![k].state = "connecting", ![k].subs = {}]
    /\ hook' = [SetState(hook, "isConnected", FALSE)
                    EXCEPT !.reconnectCount = hook.reconnectCount + 1]
    /\ last' = Op("socket.disconnect", k, [callbacks |-> <<"onDisconnected">>])
    /\ UNCHANGED <<tasks, shelves, robots, fetches, missed, wanted, srvCurrent>>
    /\ HookFrame

\* reconnectionAttempts exhausted: the socket stays closed; the hook has no
\* handler for it
reconnectFailed(k) ==
    /\ view = "hook"
    /\ sockets[k].state = "connecting"
    /\ sockets' = [sockets EXCEPT ![k].state = "closed"]
    /\ last' = Op("reconnect_failed", k, [callbacks |-> <<>>])
    /\ UNCHANGED <<hook, tasks, shelves, robots, fetches, missed, wanted, srvCurrent>>
    /\ HookFrame

\* socketRef.current.disconnect(); socketRef.current = null; setIsConnected(false).
\* A connected socket emits 'disconnect' as it closes.
Disconnected(h, wasConnected) ==
    [SetState(h, "isConnected", FALSE)
        EXCEPT !.socketRef = NoSocket,
               !.reconnectCount = IF wasConnected THEN h.reconnectCount + 1
                                  ELSE h.reconnectCount]

\* disconnect()
disconnect ==
    /\ view = "hook"
    /\ hook.mounted
    /\ hook.socketRef # NoSocket
    /\ sockets' = [sockets EXCEPT ![hook.socketRef].state = "closed", ![hook.socketRef].subs = {}]
    /\ hook' = Disconnected(hook, RefConnected)
    /\ last' = Op("disconnect", hook.socketRef,
                  [callbacks |-> IF RefConnected THEN <<"onDisconnected">> ELSE <<>>])
    /\ UNCHANGED <<tasks, shelves, robots, fetches, missed, wanted, srvCurrent>>
    /\ HookFrame

\* the cleanup of the mount effect: disconnect(), and the hook is gone
unmount ==
    /\ view = "hook"
    /\ hook.mounted
    /\ sockets' = IF hook.socketRef # NoSocket
                  THEN [sockets EXCEPT ![hook.socketRef].state = "closed", ![hook.socketRef].subs = {}]
                  ELSE sockets
    /\ hook' = [(IF hook.socketRef # NoSocket THEN Disconnected(hook, RefConnected) ELSE hook)
                    EXCEPT !.mounted = FALSE]
    /\ last' = Op("unmount", hook.socketRef,
                  [callbacks |-> IF RefConnected THEN <<"onDisconnected">> ELSE <<>>])
    /\ UNCHANGED <<tasks, shelves, robots, fetches, missed, wanted, srvCurrent>>
    /\ HookFrame

\* a render of an owner that passes a new options object: `connect` is a new
\* function (its dependencies are [getReconnectDelay, options]), so the effect
\* of [connect, disconnect] runs its cleanup, disconnect(), and then connect()
rerender ==
    /\ view = "hook"
    /\ hook.mounted
    /\ Len(sockets) < MaxSockets
    /\ LET closed == IF hook.socketRef # NoSocket
                     THEN [sockets EXCEPT ![hook.socketRef].state = "closed",
                                          ![hook.socketRef].subs = {}]
                     ELSE sockets
           after == IF hook.socketRef # NoSocket THEN Disconnected(hook, RefConnected) ELSE hook
       IN  /\ sockets' = Append(closed, NewSocket(getReconnectDelay(after.reconnectCount)))
           /\ hook' = [after EXCEPT !.socketRef = Len(sockets) + 1]
    /\ last' = Op("render", hook.socketRef,
                  [callbacks |-> IF RefConnected THEN <<"onDisconnected">> ELSE <<>>])
    /\ UNCHANGED <<tasks, shelves, robots, fetches, missed, wanted, srvCurrent>>
    /\ HookFrame

(* The snapshot of the connect handler *)

\* the statuses the backend reports of task t1
TaskStatuses == IF traffic = "tasks" THEN {"PENDING", "COMPLETED"} ELSE {"PENDING"}

\* mapApi.getAllTasksForMap().then((tasks) => options.onAllTasksUpdate?.(tasks))
fetchResolved(i, list) ==
    /\ view = "hook"
    /\ i \in DOMAIN fetches
    /\ fetches' = Remove(fetches, i)
    /\ StoreBecomes(onAllTasksUpdate(Store, list))
    /\ last' = Op("fetchResolved", fetches[i].socket, [tasks |-> list, fetch |-> fetches[i]])
    /\ UNCHANGED <<hook, sockets, wanted, srvCurrent, missed>>
    /\ HookFrame

\* .catch((err) => console.error(...))
fetchRejected(i) ==
    /\ view = "hook"
    /\ i \in DOMAIN fetches
    /\ fetches' = Remove(fetches, i)
    /\ last' = Op("fetchRejected", fetches[i].socket, <<>>)
    /\ UNCHANGED <<hook, sockets, wanted, srvCurrent, missed, tasks, shelves, robots>>
    /\ HookFrame

(* Subscriptions *)

\* socketRef.current.emit(...) unless the socket is not connected
Emit(room, join) ==
    IF RefConnected
    THEN [sockets EXCEPT ![hook.socketRef].subs = IF join THEN @ \cup {room} ELSE @ \ {room}]
    ELSE sockets

\* the event name and the arguments of the emit for a room
EmitEvent(room, join) ==
    [event |-> (IF join THEN "subscribe_" ELSE "unsubscribe_")
                   \o (IF room = "map" THEN "map" ELSE "task"),
     args |-> IF room = "map" THEN <<>> ELSE <<[task_id |-> room]>>]

\* a subscribe function without the check of the connection
EmittedUnchecked(room, join) == <<EmitEvent(room, join)>>

\* what a subscribe function emits: nothing unless the socket is connected
Emitted(room, join) == IF RefConnected THEN <<EmitEvent(room, join)>> ELSE <<>>

\* subscribeMap(), subscribeTask(taskId)
subscribe(room) ==
    /\ view = "hook"
    /\ hook.mounted
    /\ sockets' = Emit(room, TRUE)
    /\ wanted' = IF RefConnected THEN wanted \cup {room} ELSE wanted
    /\ last' = Op("subscribe", room, [emitted |-> Emitted(room, TRUE)])
    /\ UNCHANGED <<hook, fetches, missed, srvCurrent, tasks, shelves, robots>>
    /\ HookFrame

\* unsubscribeMap(), unsubscribeTask(taskId)
unsubscribe(room) ==
    /\ view = "hook"
    /\ hook.mounted
    /\ sockets' = Emit(room, FALSE)
    /\ wanted' = wanted \ {room}
    /\ last' = Op("unsubscribe", room, [emitted |-> Emitted(room, FALSE)])
    /\ UNCHANGED <<hook, fetches, missed, srvCurrent, tasks, shelves, robots>>
    /\ HookFrame

(* Push events: the server sends an event to the connections that have joined
   its room *)

Hears(k, rooms) == sockets[k].state = "connected" /\ sockets[k].subs \cap rooms # {}

\* the listeners of connect() without the fallback for tasks_update
HandlerCallsNoFallback(name, data) ==
    IF name = "task_update" THEN <<[callback |-> "onTaskUpdate", arg |-> data.task]>>
    ELSE IF name = "robot_position_update"
    THEN <<[callback |-> "onRobotPositionUpdate", arg |-> data]>>
    ELSE IF name = "task_status_change" THEN <<[callback |-> "onTaskStatusChange", arg |-> data]>>
    ELSE IF name = "shelf_location_fixed"
    THEN <<[callback |-> "onShelfLocationFixed", arg |-> data]>>
    ELSE IF name = "map_data" THEN <<[callback |-> "onMapDataUpdate", arg |-> data]>>
    ELSE IF name = "all_tasks_map_update"
    THEN <<[callback |-> "onAllTasksUpdate", arg |-> data.tasks]>>
    ELSE <<>>

\* the calls of option callbacks that the listener of the event `name` makes
\* for the payload `data`
HandlerCalls(name, data) ==
    IF name = "task_update" THEN <<[callback |-> "onTaskUpdate", arg |-> data.task]>>
    ELSE IF name = "robot_position_update"
    THEN <<[callback |-> "onRobotPositionUpdate", arg |-> data]>>
    ELSE IF name = "task_status_change" THEN <<[callback |-> "onTaskStatusChange", arg |-> data]>>
    ELSE IF name = "shelf_location_fixed"
    THEN <<[callback |-> "onShelfLocationFixed", arg |-> data]>>
    ELSE IF name = "map_data" THEN <<[callback |-> "onMapDataUpdate", arg |-> data]>>
    ELSE <<[callback |-> "onAllTasksUpdate", arg |-> data.tasks]>>

\* the store after the owner's callback has run
Invoke(call, store) ==
    IF call.callback = "onTaskUpdate" THEN onTaskUpdate(store, call.arg)
    ELSE IF call.callback = "onRobotPositionUpdate" THEN onRobotPositionUpdate(store, call.arg)
    ELSE IF call.callback = "onTaskStatusChange" THEN onTaskStatusChange(store, call.arg)
    ELSE IF call.callback = "onShelfLocationFixed" THEN onShelfLocationFixed(store, call.arg)
    ELSE IF call.callback = "onMapDataUpdate" THEN onMapDataUpdate(store, call.arg)
    ELSE onAllTasksUpdate(store, call.arg)

RECURSIVE InvokeAll(_, _)
InvokeAll(calls, store) ==
    IF calls = <<>> THEN store ELSE InvokeAll(Tail(calls), Invoke(Head(calls), store))

\* a listener of the socket k receives the event `name` with the payload `data`
Handles(name, k, data) ==
    /\ view = "hook"
    /\ LET store == InvokeAll(HandlerCalls(name, data), Store)
       IN  /\ StoreBecomes(store)
           /\ missed' = (missed /\ ("s1" \notin DOMAIN store.shelves \/ store.shelves = shelves))
    /\ last' = Op(name, k, [callbacks |-> HandlerCalls(name, data), data |-> data])
    /\ UNCHANGED <<hook, sockets, fetches, wanted, srvCurrent>>
    /\ HookFrame

\* socket.on('task_update')
socketOnTaskUpdate(k, status) ==
    /\ Hears(k, {"map", "t1"})
    /\ Handles("task_update", k, [task |-> HookTask(status)])

\* socket.on('task_status_change')
socketOnTaskStatusChange(k, id, status) ==
    /\ Hears(k, {"map", "t1"})
    /\ Handles("task_status_change", k, [task_id |-> id, new_status |-> status])

\* socket.on('robot_position_update')
socketOnRobotPositionUpdate(k, id) ==
    /\ Hears(k, {"map"})
    /\ Handles("robot_position_update", k,
               [task_id |-> "t1", robot |-> [MapRobot(id) EXCEPT !.x = "2"]])

\* socket.on('shelf_location_fixed'): the shelf stands where the backend has it
socketOnShelfLocationFixed(k) ==
    /\ Hears(k, {"map"})
    /\ Handles("shelf_location_fixed", k,
               [task_id |-> "t1", shelf_id |-> "s1",
                x |-> srvCurrent.x, y |-> srvCurrent.y, yaw |-> srvCurrent.yaw,
                location_status |-> HookShelf.location_status])

\* socket.on('map_data')
socketOnMapData(k, withShelves, withRobots) ==
    /\ Hears(k, {"map"})
    /\ Handles("map_data", k,
               [tasks |-> <<HookTask("PENDING")>>,
                shelves |-> IF withShelves THEN <<HookShelf>> ELSE UNDEFINED,
                robots |-> IF withRobots THEN <<MapRobot("r1")>> ELSE UNDEFINED])

\* socket.on('all_tasks_map_update') and socket.on('tasks_update')
socketOnAllTasks(name, k, list) ==
    /\ Hears(k, {"map"})
    /\ Handles(name, k, [tasks |-> list])

\* socket.on('error')
socketOnError(k) ==
    /\ view = "hook"
    /\ sockets[k].state # "closed"
    /\ hook.error = NULL
    /\ hook' = SetState(hook, "error", "Error")
    /\ hook' # hook
    /\ last' = Op("error", k, [callbacks |-> <<"onError">>])
    /\ UNCHANGED <<sockets, fetches, missed, wanted, srvCurrent, tasks, shelves, robots>>
    /\ HookFrame

\* a robot carries s1 away from its storage, or back
shelfMoves ==
    /\ view = "hook"
    /\ traffic = "shelves"
    /\ srvCurrent' = IF srvCurrent = Away THEN srvStorage["s1"] ELSE Away
    /\ missed' = (missed \/ ("s1" \in DOMAIN shelves /\ \A k \in DOMAIN sockets : ~Hears(k, {"map"})))
    /\ last' = Op("shelfMoves", "s1", <<>>)
    /\ UNCHANGED <<hook, sockets, fetches, wanted, tasks, shelves, robots>>
    /\ HookFrame

NextHook ==
    \/ connect
    \/ disconnect
    \/ unmount
    \/ \E k \in DOMAIN sockets : socketOnConnect(k)
    \/ \E k \in DOMAIN sockets : socketOnDisconnect(k)
    \/ \E k \in DOMAIN sockets : reconnectFailed(k)
    \/ \E i \in 1..MaxFetches, status \in TaskStatuses : fetchResolved(i, <<HookTask(status)>>)
    \/ \E i \in 1..MaxFetches : fetchRejected(i)
    \/ subscribe("map")
    \/ unsubscribe("map")
    \/ traffic \in {"none", "tasks"} /\ subscribe("t1")
    \/ traffic \in {"none", "tasks"} /\ unsubscribe("t1")
    \/ \E k \in DOMAIN sockets, status \in TaskStatuses :
          traffic = "tasks" /\ socketOnTaskUpdate(k, status)
    \/ \E k \in DOMAIN sockets, id \in {"t1", "t9"} :
          traffic = "tasks" /\ socketOnTaskStatusChange(k, id, "COMPLETED")
    \/ \E k \in DOMAIN sockets, id \in {"r1", "r9"} :
          traffic = "robots" /\ socketOnRobotPositionUpdate(k, id)
    \/ \E k \in DOMAIN sockets : traffic = "shelves" /\ socketOnShelfLocationFixed(k)
    \/ \E k \in DOMAIN sockets, withShelves \in BOOLEAN :
          traffic \in {"shelves", "robots"}
          /\ socketOnMapData(k, withShelves \/ traffic = "robots", traffic = "robots")
    \/ \E k \in DOMAIN sockets, name \in {"all_tasks_map_update", "tasks_update"} :
          traffic = "tasks" /\ socketOnAllTasks(name, k, <<>>)
    \/ \E k \in DOMAIN sockets : traffic = "none" /\ socketOnError(k)
    \/ shelfMoves
    \/ traffic = "render" /\ rerender

-----------------------------------------------------------------------------
(* services/websocket: the callback registry and the socket listeners that *)
(* dispatch to it                                                          *)

\* the events of robot records that the socket listeners dispatch
EventNames == {"telemetry", "robot_update"}

\* the events that a page listens to on the shared socket as well: task_update
\* (Tasks) and shelf_update (Shelves)
PageEvents == {"task_update", "shelf_update"}
Pages == {"Tasks", "Shelves"}
PageEvent(page) == IF page = "Tasks" THEN "task_update" ELSE "shelf_update"

\* connectWebSocket, the first call: socket.on(event, ...) of the service for
\* each event; later calls return the same socket and add no listener
connectWebSocket == [e \in PageEvents |-> <<"service">>]

\* the callbacks components register
Callbacks == {"cb1", "cb2"}

NoDispatch == [calls |-> <<>>, logged |-> 0, uncaught |-> FALSE]

\* Set.add and Set.delete: a Set holds a value once and iterates in insertion order
SetAdd(set, value) == IF \E i \in DOMAIN set : set[i] = value THEN set ELSE Append(set, value)
SetDelete(set, value) == SelectSeq(set, LAMBDA v : v # value)

\* an invokeCallbacks whose forEach calls cb(data) outside a try: the first
\* exception ends the loop and leaves invokeCallbacks
RECURSIVE invokeCallbacksUnguarded(_, _, _)
invokeCallbacksUnguarded(eventName, set, throwers) ==
    IF set = <<>> THEN NoDispatch
    ELSE IF Head(set) \in throwers
         THEN [calls |-> <<<<eventName, Head(set)>>>>, logged |-> 0, uncaught |-> TRUE]
         ELSE LET after == invokeCallbacksUnguarded(eventName, Tail(set), throwers)
              IN  [after EXCEPT !.calls = <<<<eventName, Head(set)>>>> \o @]

\* invokeCallbacks over the Set `set` of the event: each callback is called in a
\* try whose catch logs the exception; `throwers` are the callbacks that throw
\* on the data of this event
RECURSIVE invokeCallbacks(_, _, _)
invokeCallbacks(eventName, set, throwers) ==
    IF set = <<>> THEN NoDispatch
    ELSE LET after == invokeCallbacks(eventName, Tail(set), throwers)
         IN  [after EXCEPT !.calls = <<<<eventName, Head(set)>>>> \o @,
                           !.logged = IF Head(set) \in throwers THEN @ + 1 ELSE @]

\* two statements in a row: an exception that leaves the first skips the second
Then(first, second) ==
    IF first.uncaught THEN first
    ELSE [calls |-> first.calls \o second.calls,
          logged |-> first.logged + second.logged,
          uncaught |-> second.uncaught]

RegistryFrame ==
    UNCHANGED <<view, traffic, ctx, pages, inflight, srvStorage, sent, conn, taskList,
                socketListeners>>

\* registerCallback(eventName, callback)
registerCallback(eventName, callback) ==
    /\ view = "registry"
    /\ callbackRegistry' =
          [callbackRegistry EXCEPT ![eventName] = SetAdd(@, callback)]
    /\ dispatched' = NoDispatch
    /\ last' = Op("registerCallback", callback, [event |-> eventName])
    /\ RegistryFrame

\* the unsubscribe function registerCallback returned
unregisterCallback(eventName, callback) ==
    /\ view = "registry"
    /\ callbackRegistry' =
          [callbackRegistry EXCEPT ![eventName] = SetDelete(@, callback)]
    /\ dispatched' = NoDispatch
    /\ last' = Op("unregisterCallback", callback, [event |-> eventName])
    /\ RegistryFrame

\* socket.on('telemetry') and socket.on('robot_position_update'): the callbacks of
\* the event, then the robot_update callbacks
registryOnTelemetry(throwers) ==
    /\ view = "registry"
    /\ dispatched' =
          Then(invokeCallbacks("telemetry", callbackRegistry["telemetry"], throwers),
               invokeCallbacks("robot_update", callbackRegistry["robot_update"], throwers))
    /\ last' = Op("telemetry", "", [throwers |-> throwers])
    /\ UNCHANGED callbackRegistry
    /\ RegistryFrame

\* socket.on('robot_update')
registryOnRobotUpdate(throwers) ==
    /\ view = "registry"
    /\ dispatched' =
          invokeCallbacks("robot_update", callbackRegistry["robot_update"], throwers)
    /\ last' = Op("robot_update", "", [throwers |-> throwers])
    /\ UNCHANGED callbackRegistry
    /\ RegistryFrame

PagesFrame ==
    UNCHANGED <<view, traffic, ctx, pages, inflight, srvStorage, sent, conn, taskList>>

\* the effect of the Tasks or Shelves page: connectWebSocket() returns the
\* shared socket and socket.on(event, handler) adds the page's listener
pageEffect(page) ==
    /\ view = "registry"
    /\ page \notin {socketListeners[PageEvent(page)][i] : i \in DOMAIN socketListeners[PageEvent(page)]}
    /\ socketListeners' = [socketListeners EXCEPT ![PageEvent(page)] = Append(@, page)]
    /\ dispatched' = NoDispatch
    /\ last' = Op("pageEffect", page, <<>>)
    /\ UNCHANGED callbackRegistry
    /\ PagesFrame

\* the cleanup of the page's effect: socket.off(event), without a handler,
\* removes every listener of the event
pageCleanup(page) ==
    /\ view = "registry"
    /\ page \in {socketListeners[PageEvent(page)][i] : i \in DOMAIN socketListeners[PageEvent(page)]}
    /\ socketListeners' = [socketListeners EXCEPT ![PageEvent(page)] = <<>>]
    /\ dispatched' = NoDispatch
    /\ last' = Op("pageCleanup", page, <<>>)
    /\ UNCHANGED callbackRegistry
    /\ PagesFrame

\* the socket emits task_update or shelf_update to its listeners: the one of
\* the service calls invokeCallbacks, the one of a page sets the page's state
registryOnPageEvent(eventName, throwers) ==
    /\ view = "registry"
    /\ dispatched' =
          IF \E i \in DOMAIN socketListeners[eventName] : socketListeners[eventName][i] = "service"
          THEN invokeCallbacks(eventName, callbackRegistry[eventName], throwers)
          ELSE NoDispatch
    /\ last' = Op(eventName, "", [throwers |-> throwers])
    /\ UNCHANGED callbackRegistry
    /\ RegistryFrame

\* the events whose callbacks the session registers
RegisteredEvents == IF traffic = "pages" THEN PageEvents ELSE EventNames

NextRegistry ==
    \/ \E e \in RegisteredEvents, cb \in Callbacks : registerCallback(e, cb)
    \/ \E e \in RegisteredEvents, cb \in Callbacks : unregisterCallback(e, cb)
    \/ \E throwers \in SUBSET Callbacks : traffic = "robots" /\ registryOnTelemetry(throwers)
    \/ \E throwers \in SUBSET Callbacks : traffic = "robots" /\ registryOnRobotUpdate(throwers)
    \/ \E page \in Pages : traffic = "pages" /\ pageEffect(page)
    \/ \E page \in Pages : traffic = "pages" /\ pageCleanup(page)
    \/ \E e \in PageEvents, throwers \in SUBSET Callbacks :
          traffic = "pages" /\ registryOnPageEvent(e, throwers)

-----------------------------------------------------------------------------
(* pages/Tasks: Tasks, state taskList *)

PageTask(id, status) == [id |-> id, status |-> status, shelf_id |-> "s1", priority |-> "1"]

\* { ...t, ...data.task }: the keys the task of the payload carries replace those of t
SpreadTask(t, patch) ==
    [f \in DOMAIN t \cup DOMAIN patch |-> IF f \in DOMAIN patch THEN patch[f] ELSE t[f]]

\* GET /tasks of the page: both tasks, or the first alone once the second is deleted
PageTaskLists_All == <<PageTask("t1", "PENDING"), PageTask("t2", "PENDING")>>
PageTaskLists == {PageTaskLists_All, <<PageTask("t1", "PENDING")>>}

\* payloads of `task_update`: a status of a task, or no task
TaskUpdatePayloads ==
    {[task |-> [id |-> id, status |-> st]] : id \in {"t1", "t9"}, st \in {"ASSIGNED", "COMPLETED"}}
    \cup {[message |-> "ok"]}

\* payloads of `tasks_update`: the tasks of one robot, every task, none, or no list
TasksUpdatePayloads ==
    {[tasks |-> <<PageTask("t1", "ASSIGNED")>>],
     [tasks |-> <<PageTask("t1", "ASSIGNED"), PageTask("t2", "PENDING")>>],
     [tasks |-> <<>>],
     [message |-> "ok"]}

TasksFrame ==
    UNCHANGED <<view, traffic, ctx, pages, inflight, srvStorage, conn, reg>>

\* loadData, from the responses on; a rejected request sets the error only
TasksLoadData(ok, taskData) ==
    /\ view = "tasks"
    /\ taskList' = IF ok THEN taskData ELSE taskList
    /\ last' = Op("loadData", "", [ok |-> ok])
    /\ sent' = <<>>
    /\ TasksFrame

\* socket.on('task_update'): setTaskList((prev) => prev.map(...))
TasksOnTaskUpdate(data) ==
    /\ view = "tasks"
    /\ taskList' =
          LET patch(t) ==
                  IF "task" \in DOMAIN data /\ t.id = data.task.id
                  THEN SpreadTask(t, data.task) ELSE t
          IN  SeqMap(taskList, patch)
    /\ last' = Op("task_update", "", data)
    /\ sent' = <<>>
    /\ TasksFrame

\* socket.on('tasks_update'): if (data.tasks) setTaskList(data.tasks)
TasksOnTasksUpdate(data) ==
    /\ view = "tasks"
    /\ taskList' = IF "tasks" \in DOMAIN data THEN data.tasks ELSE taskList
    /\ last' = Op("tasks_update", "", data)
    /\ sent' = <<>>
    /\ TasksFrame

\* handleDeleteTask, confirmed, from the responses on: tasks.delete, then loadData
handleDeleteTask(taskId, ok) ==
    /\ view = "tasks"
    /\ \E i \in DOMAIN taskList : taskList[i].id = taskId
    /\ taskList' = IF ok THEN SelectSeq(PageTaskLists_All, LAMBDA t : t.id # taskId)
                   ELSE taskList
    /\ last' = Op("handleDeleteTask", taskId, [ok |-> ok])
    /\ sent' = <<>>
    /\ TasksFrame

NextTasks ==
    \/ \E ok \in BOOLEAN, taskData \in PageTaskLists : TasksLoadData(ok, taskData)
    \/ \E data \in TaskUpdatePayloads : TasksOnTaskUpdate(data)
    \/ \E data \in TasksUpdatePayloads : TasksOnTasksUpdate(data)
    \/ \E ok \in BOOLEAN : handleDeleteTask("t2", ok)

-----------------------------------------------------------------------------
\* the mounted tree and the records that change while it is mounted
Sessions ==
    {<<"ctx", "none">>, <<"ctx", "robots">>, <<"ctx", "shelves">>, <<"ctx", "tasks">>,
     <<"map", "robots">>, <<"map", "shelves">>, <<"map", "tasks">>,
     <<"robots", "robots">>,
     <<"shelves", "none">>, <<"shelves", "shelves">>,
     <<"hook", "none">>, <<"hook", "robots">>, <<"hook", "shelves">>, <<"hook", "tasks">>,
     <<"hook", "render">>,
     <<"registry", "robots">>, <<"registry", "pages">>, <<"tasks", "tasks">>}

Init ==
    /\ \E s \in Sessions : view = s[1] /\ traffic = s[2]
    /\ tasks = EmptyMap
    /\ shelves = EmptyMap
    /\ robots = EmptyMap
    /\ selected = NULL
    /\ panel = NoPanel
    /\ inflight = <<>>
    /\ srvStorage = InitialStorage
    /\ sent = <<>>
    /\ last = NoOp
    /\ mapData = NullObject
    /\ robotList = <<>>
    /\ shelfList = <<>>
    /\ editingShelf = NullObject
    /\ formData = initialFormData
    /\ selectedShelf = NullObject
    /\ hook = IF view = "hook" THEN MountedHook ELSE NoHook
    /\ sockets = IF view = "hook" THEN <<NewSocket(getReconnectDelay(0))>> ELSE <<>>
    /\ fetches = <<>>
    /\ missed = FALSE
    /\ wanted = {}
    /\ srvCurrent = InitialStorage["s1"]
    /\ callbackRegistry = [e \in EventNames \cup PageEvents |-> <<>>]
    /\ dispatched = NoDispatch
    /\ socketListeners = connectWebSocket
    /\ taskList = <<>>

Next == NextCtx \/ NextMap \/ NextRobots \/ NextShelves \/ NextHook \/ NextRegistry \/ NextTasks

Spec == Init /\ [][Next]_vars
-----------------------------------------------------------------------------
(* Storage coordinates *)

\* the storage coordinates of a shelf document
StorageOf(doc) == Coordinates(doc.storage_x, doc.storage_y, doc.storage_yaw)

\* the storage coordinates the backend has held for a shelf
BackendStorages(id) == {InitialStorage[id], srvStorage[id]}

\* C1: in the MapProvider store and in the Map page's mapData, a setShelfCurrent
\* call, a shelf_update event and a position poll leave the storage coordinates
\* of every shelf they keep as they were, and the storage coordinates of a shelf
\* in either store are always coordinates the backend held for it: no sequence
\* of these updates writes storage.
C1_StorageSurvivesUpdates ==
    /\ [](/\ view = "ctx" =>
                \A id \in DOMAIN shelves : shelves[id].storage \in BackendStorages(id)
          /\ (view = "map" /\ mapData # NullObject) =>
                \A i \in DOMAIN mapData.shelves :
                    StorageOf(mapData.shelves[i]) \in BackendStorages(mapData.shelves[i].id))
    /\ [][/\ last'.op = "setShelfCurrent" =>
                \A id \in DOMAIN shelves \cap DOMAIN shelves' :
                    shelves'[id].storage = shelves[id].storage
          /\ (view = "map" /\ mapData # NullObject
                /\ last'.op \in {"shelf_update", "positionRefreshInterval"}) =>
                \A i \in DOMAIN mapData.shelves, j \in DOMAIN mapData'.shelves :
                    mapData.shelves[i].id = mapData'.shelves[j].id =>
                        StorageOf(mapData'.shelves[j]) = StorageOf(mapData.shelves[i])]_vars

\* a shelf_update event that carries storage fields has moved s1 in mapData and
\* left its storage alone
C1_Witness ==
    /\ view = "map"
    /\ last.op = "shelf_update"
    /\ last.args.storage_x # UNDEFINED
    /\ mapData # NullObject
    /\ \E i \in DOMAIN mapData.shelves :
          /\ mapData.shelves[i].id = last.args.shelf_id
          /\ mapData.shelves[i].current_x = last.args.current_x
          /\ mapData.shelves[i].storage_x # last.args.storage_x
          /\ mapData.shelves[i].storage_x # mapData.shelves[i].current_x

\* C2: in the Shelves page no shelf_update or shelf_location_update event changes
\* storage_x, storage_y or storage_yaw of a listed shelf, whatever the payload.
C2_PushKeepsListedStorage ==
    [][(view = "shelves" /\ last'.op \in {"shelf_update", "shelf_location_update"}) =>
            /\ Len(shelfList') = Len(shelfList)
            /\ \A i \in DOMAIN shelfList :
                  StorageOf(shelfList'[i]) = StorageOf(shelfList[i])]_vars

\* C3: setShelfCurrent on a shelf of the store sets its current x, y and its
\* location_status to the arguments and leaves its storage, its other fields,
\* the other shelves, the robots and the tasks as they were.
C3_SetShelfCurrentFrame ==
    [][(last'.op = "setShelfCurrent" /\ last'.id \in DOMAIN shelves) =>
            LET id == last'.id
                a == last'.args
            IN  /\ DOMAIN shelves' = DOMAIN shelves
                /\ shelves'[id].current.x = a.x
                /\ shelves'[id].current.y = a.y
                /\ shelves'[id].location_status = a.locationStatus
                /\ shelves'[id].storage = shelves[id].storage
                /\ shelves'[id].current.yaw = shelves[id].current.yaw
                /\ \A f \in {"id", "warehouse_id", "available", "status"} :
                      shelves'[id][f] = shelves[id][f]
                /\ \A other \in DOMAIN shelves \ {id} : shelves'[other] = shelves[other]
                /\ robots' = robots
                /\ tasks' = tasks]_vars

\* setShelfCurrent has moved a shelf off its storage, beside another shelf, a
\* robot and a task
C3_Witness ==
    /\ last.op = "setShelfCurrent"
    /\ last.id \in DOMAIN shelves
    /\ shelves[last.id].current.x = last.args.x
    /\ shelves[last.id].current.x # shelves[last.id].storage.x
    /\ shelves[last.id].location_status = "IN_TRANSIT"
    /\ Cardinality(DOMAIN shelves) = 2
    /\ robots # EmptyMap
    /\ tasks # EmptyMap

\* C4: a restore-to-storage of a shelf away from its storage (setShelfCurrent
\* with the storage coordinates, or the panel's Restore fulfilled) leaves the
\* shelf's current equal to its storage in x, y and yaw, and its storage as before.
C4_RestoreReachesStorage ==
    [][(/\ last'.id \in DOMAIN shelves
        /\ isDifferent(shelves[last'.id])
        /\ \/ last'.op = "handleRestoreResolved"
           \/ /\ last'.op = "setShelfCurrent"
              /\ last'.args.x = shelves[last'.id].storage.x
              /\ last'.args.y = shelves[last'.id].storage.y) =>
            /\ shelves'[last'.id].current = shelves'[last'.id].storage
            /\ shelves'[last'.id].storage = shelves[last'.id].storage]_vars

\* C5: handleSetStorage with the confirmation declined sends no request and
\* changes no shelf, robot or task of the store.
C5_DeclineAborts ==
    [][(last'.op = "handleSetStorage" /\ ~last'.args.confirmed) =>
            /\ sent' = <<>>
            /\ inflight' = inflight
            /\ shelves' = shelves
            /\ robots' = robots
            /\ tasks' = tasks
            /\ srvStorage' = srvStorage]_vars

\* the user has declined the confirmation of coordinates that differ from the
\* shelf's storage
C5_Witness ==
    /\ last.op = "handleSetStorage"
    /\ ~last.args.confirmed
    /\ panel.mounted
    /\ panel.showStorageForm
    /\ panel.storageCoords.storage_x # shelves[selected].storage.x
    /\ sent = <<>>

\* C6: a confirmed set-storage of a shelf that succeeds leaves the shelf's
\* storage equal to the coordinates sent and its current position as before.
C6_SetStorageKeepsCurrent ==
    [][(last'.op = "handleSetStorageResolved" /\ last'.id \in DOMAIN shelves) =>
            LET c == last'.args.coords
            IN  /\ shelves'[last'.id].storage = Coordinates(c.storage_x, c.storage_y, c.storage_yaw)
                /\ shelves'[last'.id].current = shelves[last'.id].current]_vars

\* C7: a set-storage request is only ever sent by a step in which the user
\* confirmed it.
C7_SetStorageConfirmed ==
    \A i \in DOMAIN sent :
        sent[i].kind = "set_storage" => (last.op = "handleSetStorage" /\ last.args.confirmed)

-----------------------------------------------------------------------------
(* Partial updates *)

\* the identifiers a payload carries
IdsOf(data) == {data.robot_id, data.robot, data.id, data.name, data.shelf_id} \ {UNDEFINED}

\* no record of the list goes by an identifier of the payload
Unaddressed(list, data) ==
    \A i \in DOMAIN list : {list[i].id, list[i].robot_id, list[i].name} \cap IdsOf(data) = {}

\* the robots, or the shelves, of mapData
MapList(data, field) == IF data = NullObject THEN <<>> ELSE data[field]

\* C8: a partial update addressed to an id the store does not hold (robot or
\* shelf push event, setRobotPosition, setShelfCurrent, updateTaskStatus)
\* creates no record and leaves every collection and every record as it was.
C8_UnknownIdIsNoOp ==
    [][/\ (last'.op = "updateTaskStatus" /\ last'.id \notin DOMAIN tasks) =>
                UNCHANGED <<tasks, shelves, robots>>
       /\ (last'.op = "setRobotPosition" /\ last'.id \notin DOMAIN robots) =>
                UNCHANGED <<tasks, shelves, robots>>
       /\ (last'.op = "setShelfCurrent" /\ last'.id \notin DOMAIN shelves) =>
                UNCHANGED <<tasks, shelves, robots>>
       /\ (view = "map" /\ last'.op \in {"telemetry", "robot_update"}
             /\ Unaddressed(MapList(mapData, "robots"), last'.args)) =>
                mapData' = mapData
       /\ (view = "map" /\ last'.op = "shelf_update"
             /\ Unaddressed(MapList(mapData, "shelves"), last'.args)) =>
                mapData' = mapData
       /\ (view = "robots" /\ last'.op \in {"telemetry", "robot_update"}
             /\ Unaddressed(robotList, last'.args)) =>
                robotList' = robotList
       /\ (view = "shelves" /\ last'.op \in {"shelf_update", "shelf_location_update"}
             /\ Unaddressed(shelfList, last'.args)) =>
                shelfList' = shelfList]_vars

\* a telemetry event for a robot the Map page does not hold has been handled
\* while the page held two robots
C8_Witness ==
    /\ view = "map"
    /\ last.op = "telemetry"
    /\ last.args.robot_id = "R9"
    /\ last.args.x # UNDEFINED
    /\ mapData # NullObject
    /\ Len(mapData.robots) = 2
    /\ Unaddressed(mapData.robots, last.args)

\* the value a payload carries for a field, the position aliases resolved
Carried(data, f) ==
    CASE f \in {"x", "current_x"} -> Defined(data.x, data.current_x)
      [] f \in {"y", "current_y"} -> Defined(data.y, data.current_y)
      [] f \in {"yaw", "current_yaw"} -> Defined(data.yaw, data.current_yaw)
      [] OTHER -> data[f]

\* the robots of the mounted page
RobotsOf(data, list) == IF view = "map" THEN MapList(data, "robots") ELSE list

\* C9: a robot push event changes only the fields its payload carries.
C9_PatchTouchesCarriedFields ==
    [][(view \in {"map", "robots"} /\ last'.op \in {"telemetry", "robot_update"}) =>
            LET old == RobotsOf(mapData, robotList)
                new == RobotsOf(mapData', robotList')
            IN  /\ Len(new) = Len(old)
                /\ \A i \in DOMAIN old : \A f \in DOMAIN old[i] :
                      Carried(last'.args, f) = UNDEFINED => new[i][f] = old[i][f]]_vars

NumericFields ==
    {"x", "y", "yaw", "current_x", "current_y", "current_yaw",
     "cpu_usage", "ram_usage", "battery_level", "temperature"}

\* the fields for which a payload has no number keep their value
KeepsWithoutNumber(old, new, data) ==
    \A f \in NumericFields : Carried(data, f) \notin Numbers => new[f] = old[f]

\* a poll leaves the fields of the records it keeps at their previous value
\* where the polled document has no number
PollKeepsWithoutNumber(old, new, polled) ==
    \A i \in DOMAIN old, j \in DOMAIN new, k \in DOMAIN polled :
        (old[i].id = new[j].id /\ old[i].id = polled[k].id) =>
            KeepsWithoutNumber(old[i], new[j], polled[k])

\* C10: a push event or a poll merge leaves every coordinate and telemetry field
\* for which its payload has no number (missing, null or not numeric) at its
\* previous value.
C10_BadValuesAreDropped ==
    [][/\ (view \in {"map", "robots"} /\ last'.op \in {"telemetry", "robot_update"}) =>
            LET old == RobotsOf(mapData, robotList)
                new == RobotsOf(mapData', robotList')
            IN  \A i \in DOMAIN old \cap DOMAIN new :
                    KeepsWithoutNumber(old[i], new[i], last'.args)
       /\ (view = "map" /\ last'.op = "shelf_update") =>
            LET old == MapList(mapData, "shelves")
                new == MapList(mapData', "shelves")
            IN  \A i \in DOMAIN old \cap DOMAIN new :
                    KeepsWithoutNumber(old[i], new[i], last'.args)
       /\ (view = "shelves" /\ last'.op \in {"shelf_update", "shelf_location_update"}) =>
            \A i \in DOMAIN shelfList \cap DOMAIN shelfList' :
                KeepsWithoutNumber(shelfList[i], shelfList'[i], last'.args)
       /\ (view = "map" /\ last'.op = "positionRefreshInterval") =>
            /\ PollKeepsWithoutNumber(MapList(mapData, "robots"), MapList(mapData', "robots"),
                                      last'.args.robots)
            /\ PollKeepsWithoutNumber(MapList(mapData, "shelves"), MapList(mapData', "shelves"),
                                      last'.args.shelves)
       /\ (view = "robots" /\ last'.op = "positionInterval") =>
            PollKeepsWithoutNumber(robotList, robotList', last'.args.robots)]_vars

-----------------------------------------------------------------------------
(* Identity resolution *)

\* the identifiers by which a robot payload names its robot
RobotIds(data) == {data.robot_id, data.robot, data.id} \ {UNDEFINED}

\* the first index of the list that satisfies P, 0 when there is none
FirstIndex(list, P(_)) ==
    IF \E i \in DOMAIN list : P(list[i])
    THEN CHOOSE i \in DOMAIN list : P(list[i]) /\ \A j \in 1..(i - 1) : ~P(list[j])
    ELSE 0

\* the record a payload resolves to: by id, else by robot_id, else by name
Resolved(list, data) ==
    LET byId(r) == r.id \in RobotIds(data)
        byAlias(r) == r.robot_id \in RobotIds(data)
        byName(r) == data.name # UNDEFINED /\ r.name = data.name
    IN  IF FirstIndex(list, byId) # 0 THEN FirstIndex(list, byId)
        ELSE IF FirstIndex(list, byAlias) # 0 THEN FirstIndex(list, byAlias)
        ELSE FirstIndex(list, byName)

\* C11: a robot push event changes at most one robot record, the one its
\* payload resolves to by id, then by robot_id, then by name; a payload that
\* resolves to no record changes none.
C11_PatchHitsResolvedRecord ==
    [][(view \in {"map", "robots"} /\ last'.op \in {"telemetry", "robot_update"}) =>
            LET old == RobotsOf(mapData, robotList)
                new == RobotsOf(mapData', robotList')
            IN  /\ Len(new) = Len(old)
                /\ \A i \in DOMAIN old :
                      new[i] # old[i] => i = Resolved(old, last'.args)]_vars

-----------------------------------------------------------------------------
(* Bulk replace *)

\* the collection holds the snapshot's records and no other, each under its
\* key; of two records with one key the later one
HoldsExactly(coll, snapshot, key) ==
    /\ DOMAIN coll = {snapshot[i][key] : i \in DOMAIN snapshot}
    /\ \A i \in DOMAIN snapshot :
          (\A j \in (i + 1)..Len(snapshot) : snapshot[j][key] # snapshot[i][key]) =>
              coll[snapshot[i][key]] = snapshot[i]

\* the collection a bulk replace writes, and its key
Replaced(op, t, s, r) ==
    CASE op = "setTasks" -> [coll |-> t, key |-> "task_id"]
      [] op = "setShelves" -> [coll |-> s, key |-> "id"]
      [] op = "setRobots" -> [coll |-> r, key |-> "id"]

\* C12: after setTasks, setShelves or setRobots the collection holds exactly
\* the snapshot's records keyed by id, records outside the snapshot are gone,
\* and a second replace with the same snapshot leaves the store as the first
\* left it.
C12_BulkReplaceIsExact ==
    [][last'.op \in {"setTasks", "setShelves", "setRobots"} =>
          LET after == Replaced(last'.op, tasks', shelves', robots')
          IN  /\ HoldsExactly(after.coll, last'.args, after.key)
              /\ (last.op = last'.op /\ last.args = last'.args) =>
                    UNCHANGED <<tasks, shelves, robots>>]_vars

\* a bulk replace has removed the selected shelf from the store
C12_Witness ==
    /\ last.op = "setShelves"
    /\ selected = "s1"
    /\ "s1" \notin DOMAIN shelves
    /\ "s2" \in DOMAIN shelves

-----------------------------------------------------------------------------
(* The socket of the task map *)

\* C13: when moves of shelf s1 were missed while no connection heard them, and
\* the socket has connected again, then once the snapshot fetch of that connect
\* event completes the store holds s1 at the snapshot's current position.
C13_ReconnectReconciles ==
    [][(/\ view = "hook"
        /\ last'.op = "fetchResolved"
        /\ last'.args.fetch.afterMiss
        /\ missed
        /\ "s1" \in DOMAIN shelves') =>
            LET snapshot == last'.args.tasks[1].shelf.current
            IN  /\ shelves'["s1"].current.x = snapshot.x
                /\ shelves'["s1"].current.y = snapshot.y]_vars

\* C14: each time the socket of the hook enters the connected state, every
\* subscription emitted for the owner and not withdrawn has been emitted again
\* on the new connection when the connect handler has run.
C14_ConnectResubscribes ==
    [][(/\ view = "hook"
        /\ last'.op = "socket.connect"
        /\ last'.id = hook'.socketRef) =>
            wanted' \subseteq sockets'[last'.id].subs]_vars

\* C15: once a view is torn down, nothing of it changes the store or its own
\* state again: neither a timer, nor an event handler, nor the response of a
\* fetch that was awaited at the teardown.
C15_TeardownIsFinal ==
    [][/\ (view = "hook" /\ ~hook.mounted) => UNCHANGED <<tasks, shelves, robots, hook>>
       /\ view = "gone" => UNCHANGED <<tasks, shelves, robots, mapData>>]_vars

\* C20: isConnected is false at first, true exactly while the last connect or
\* disconnect event of the hook's socket was a connect, and false after
\* disconnect(); every connect event calls onConnected once and every
\* disconnect event calls onDisconnected once.
C20_IsConnectedTracksSocket ==
    /\ []((view = "hook" /\ hook.mounted) => (hook.isConnected <=> RefConnected))
    /\ [][/\ (last'.op = "socket.connect") => (last'.args.callbacks = <<"onConnected">>)
          /\ (last'.op = "socket.disconnect") =>
                (last'.args.callbacks = <<"onDisconnected">>)]_vars

\* the calls a dispatch of the events `names` owes: every callback registered
\* for each of them, once, in the order of registration
RECURSIVE Owed(_)
Owed(names) ==
    IF names = <<>> THEN <<>>
    ELSE SeqMap(callbackRegistry[Head(names)], LAMBDA cb : <<Head(names), cb>>)
         \o Owed(Tail(names))

\* C16: a callback that throws on a push event does not throw into the
\* socket's dispatch, every callback registered for the event is still called
\* for it, and the registry is as it was, so that later events reach all of
\* them as well.
C16_CallbackErrorsAreContained ==
    [][view = "registry" /\ last'.op \in EventNames =>
          /\ ~dispatched'.uncaught
          /\ dispatched'.calls =
                Owed(IF last'.op = "telemetry" THEN <<"telemetry", "robot_update">>
                     ELSE <<"robot_update">>)
          /\ dispatched'.logged =
                Cardinality({i \in DOMAIN dispatched'.calls :
                                dispatched'.calls[i][2] \in last'.args.throwers})
          /\ callbackRegistry' = callbackRegistry]_vars

\* the first callback of a telemetry event threw and the callbacks after it,
\* of both events, were called
C16_Witness ==
    /\ view = "registry"
    /\ last.op = "telemetry"
    /\ last.args.throwers = {"cb1"}
    /\ dispatched.calls = <<<<"telemetry", "cb1">>, <<"telemetry", "cb2">>,
                            <<"robot_update", "cb2">>>>
    /\ dispatched.logged = 1

\* C17: a poll whose list request fails shows no error and leaves the robots,
\* shelves and tasks of the view as they were before the poll (the poll runs
\* again at the next tick of its interval, which nothing stops but the cleanup).
C17_FailedPollLeavesState ==
    [][/\ (view = "map" /\ mapData # NullObject /\ last'.op = "positionRefreshInterval") =>
            /\ (last'.args.robots = Failed) => (mapData'.robots = mapData.robots)
            /\ (last'.args.shelves = Failed) => (mapData'.shelves = mapData.shelves)
            /\ mapData'.tasks = mapData.tasks
       /\ (view = "map" /\ mapData # NullObject /\ last'.op = "taskStatusInterval"
             /\ last'.args.tasks = Failed) => (mapData' = mapData)
       /\ (view = "robots" /\ last'.op = "positionInterval" /\ ~last'.args.ok) =>
            (robotList' = robotList)]_vars

TaskIds(list) == {list[i].id : i \in DOMAIN list}

\* C18: no push event replaces or shrinks a collection: every task (robot,
\* shelf) the view held before a push event is still held after it.
C18_PushNeverShrinks ==
    [][/\ (view = "tasks" /\ last'.op \in {"task_update", "tasks_update"}) =>
            (TaskIds(taskList) \subseteq TaskIds(taskList'))
       /\ (view = "hook" /\ last'.op \in {"task_update", "task_status_change",
                                           "robot_position_update", "shelf_location_fixed"}) =>
            /\ DOMAIN tasks \subseteq DOMAIN tasks'
            /\ DOMAIN shelves \subseteq DOMAIN shelves'
            /\ DOMAIN robots \subseteq DOMAIN robots']_vars

\* C19: a restore or set-storage request that fails (network error, 403,
\* another non-2xx answer) leaves the store as it was, and the handler gets an
\* error with a message, which the panel that started the request shows.
C19_FailedRequestLeavesStore ==
    [][last'.op \in {"handleRestoreRejected", "handleSetStorageRejected"} =>
          /\ UNCHANGED <<tasks, shelves, robots, srvStorage>>
          /\ ApiErrorMessage(IF last'.op = "handleRestoreRejected" THEN "restore"
                             ELSE "set_storage", last'.args.failure) # ""
          /\ last'.args.live =>
                /\ panel'.mounted
                /\ panel'.error =
                      ApiErrorMessage(IF last'.op = "handleRestoreRejected" THEN "restore"
                                      ELSE "set_storage", last'.args.failure)]_vars

\* the set-storage request of the open panel was answered 403 and the panel
\* shows the message while the shelf keeps its storage
C19_Witness ==
    /\ view = "ctx"
    /\ last.op = "handleSetStorageRejected"
    /\ last.args.failure = "403"
    /\ last.args.live
    /\ panel.error = "Forbidden: Admin privileges required"
    /\ panel.storageCoords.storage_x # shelves["s1"].storage.x

\* C21: the delay before a reconnect attempt is 1000 ms times 2 to the number
\* of consecutive disconnects since the last connect, at most 30000 ms, and the
\* counter is 0 after a connect.
C21_BackoffFollowsDisconnects ==
    /\ [][last'.op = "socket.connect" => hook'.reconnectCount = 0]_vars
    /\ [][last'.op = "socket.disconnect" =>
            /\ hook'.reconnectCount = hook.reconnectCount + 1
            /\ sockets'[last'.id].state = "connecting"
            /\ sockets'[last'.id].reconnectionDelay = getReconnectDelay(hook'.reconnectCount)
            /\ sockets'[last'.id].reconnectionDelay <= MaxReconnectDelay]_vars

\* C22: while the socket is connected subscribeMap() emits subscribe_map,
\* subscribeTask(id) emits subscribe_task with {task_id: id} and
\* unsubscribeTask(id) emits unsubscribe_task with {task_id: id}, once per
\* call; while it is not connected the call emits nothing.
C22_SubscriptionsEmitOnce ==
    [][(view = "hook" /\ last'.op \in {"subscribe", "unsubscribe"}) =>
          LET emitted == last'.args.emitted
              room == last'.id
          IN  IF ~RefConnected THEN emitted = <<>> /\ sockets' = sockets
              ELSE /\ Len(emitted) = 1
                   /\ (last'.op = "subscribe" /\ room = "map") =>
                         (emitted[1].event = "subscribe_map" /\ emitted[1].args = <<>>)
                   /\ (last'.op = "subscribe" /\ room = "t1") =>
                         /\ emitted[1].event = "subscribe_task"
                         /\ emitted[1].args = <<[task_id |-> "t1"]>>
                   /\ (last'.op = "unsubscribe" /\ room = "t1") =>
                         /\ emitted[1].event = "unsubscribe_task"
                         /\ emitted[1].args = <<[task_id |-> "t1"]>>
                   /\ sockets'[hook.socketRef].subs =
                         IF last'.op = "subscribe"
                         THEN sockets[hook.socketRef].subs \cup {room}
                         ELSE sockets[hook.socketRef].subs \ {room}]_vars

\* subscribeTask("t1") was called on a connected socket
C22_Witness ==
    /\ view = "hook"
    /\ last.op = "subscribe"
    /\ last.id = "t1"
    /\ last.args.emitted = <<[event |-> "subscribe_task", args |-> <<[task_id |-> "t1"]>>]>>
    /\ sockets[hook.socketRef].subs = {"t1"}
    /\ wanted = {"t1"}

PushEvents ==
    {"task_update", "robot_position_update", "task_status_change", "shelf_location_fixed",
     "map_data", "all_tasks_map_update", "tasks_update"}

\* C23: for each inbound event the hook calls the option callback of that
\* event, once, with the payload as received (the task of a task_update, the
\* tasks of all_tasks_map_update and tasks_update), and no other callback.
C23_OneCallbackPerEvent ==
    [][(view = "hook" /\ last'.op \in PushEvents) =>
          LET calls == last'.args.callbacks
              data == last'.args.data
              name == last'.op
          IN  /\ Len(calls) = 1
              /\ name = "task_update" =>
                    (calls[1].callback = "onTaskUpdate" /\ calls[1].arg = data.task)
              /\ name = "robot_position_update" =>
                    (calls[1].callback = "onRobotPositionUpdate" /\ calls[1].arg = data)
              /\ name = "task_status_change" =>
                    (calls[1].callback = "onTaskStatusChange" /\ calls[1].arg = data)
              /\ name = "shelf_location_fixed" =>
                    (calls[1].callback = "onShelfLocationFixed" /\ calls[1].arg = data)
              /\ name = "map_data" =>
                    (calls[1].callback = "onMapDataUpdate" /\ calls[1].arg = data)
              /\ name \in {"all_tasks_map_update", "tasks_update"} =>
                    (calls[1].callback = "onAllTasksUpdate" /\ calls[1].arg = data.tasks)]_vars

\* the fallback event tasks_update reached the hook and its tasks went to onAllTasksUpdate
C23_Witness ==
    /\ view = "hook"
    /\ last.op = "tasks_update"
    /\ last.args.callbacks = <<[callback |-> "onAllTasksUpdate", arg |-> <<>>]>>
    /\ tasks = EmptyMap

TelemetryFields == {"cpu_usage", "ram_usage", "battery_level", "temperature", "status"}

\* the position a polled document carries
PolledPosition(r) == Coordinates(Defined(r.x, r.current_x), Defined(r.y, r.current_y),
                                 Defined(r.yaw, r.current_yaw))

\* the records of `new` that were in `old` and in the poll result `polled`
\* satisfy Q(old record, new record, polled document)
ForPolled(old, new, polled, Q(_, _, _)) ==
    \A i \in DOMAIN old, j \in DOMAIN polled :
        old[i].id = polled[j].id =>
            \E k \in DOMAIN new : new[k].id = old[i].id /\ Q(old[i], new[k], polled[j])

HasPolledPosition(o, n, r) == Coordinates(n.x, n.y, n.yaw) = PolledPosition(r)
HasPolledTelemetry(o, n, r) == \A f \in TelemetryFields : n[f] = r[f]
KeepsAllButPosition(o, n, r) == \A f \in DOMAIN o \ {"x", "y", "yaw"} : n[f] = o[f]

\* C24, as claimed: after a fast poll every robot in the store and in the
\* result has the polled position, telemetry and status, and every shelf in
\* both has the polled position.
C24_PollIsAuthoritative ==
    [][/\ (view = "map" /\ mapData # NullObject /\ last'.op = "positionRefreshInterval") =>
            /\ ForPolled(mapData.robots, mapData'.robots, last'.args.robots, HasPolledPosition)
            /\ ForPolled(mapData.robots, mapData'.robots, last'.args.robots, HasPolledTelemetry)
            /\ ForPolled(mapData.shelves, mapData'.shelves, last'.args.shelves,
                         HasPolledPosition)
       /\ (view = "robots" /\ last'.op = "positionInterval" /\ last'.args.ok) =>
            /\ ForPolled(robotList, robotList', last'.args.robots, HasPolledPosition)
            /\ ForPolled(robotList, robotList', last'.args.robots, HasPolledTelemetry)]_vars

\* C24, amended: after a fast poll every robot and shelf in the store and in
\* the result has the polled position in x, y and yaw, and every other field,
\* telemetry and status among them, as the store had it.
C24_PollSetsPositionOnly ==
    [][/\ (view = "map" /\ mapData # NullObject /\ last'.op = "positionRefreshInterval") =>
            /\ ForPolled(mapData.robots, mapData'.robots, last'.args.robots, HasPolledPosition)
            /\ ForPolled(mapData.robots, mapData'.robots, last'.args.robots,
                         KeepsAllButPosition)
            /\ ForPolled(mapData.shelves, mapData'.shelves, last'.args.shelves,
                         HasPolledPosition)
            /\ ForPolled(mapData.shelves, mapData'.shelves, last'.args.shelves,
                         KeepsAllButPosition)
       /\ (view = "robots" /\ last'.op = "positionInterval" /\ last'.args.ok) =>
            /\ ForPolled(robotList, robotList', last'.args.robots, HasPolledPosition)
            /\ ForPolled(robotList, robotList', last'.args.robots, KeepsAllButPosition)]_vars

\* a fast poll moved r1 on the Map page while the battery level a push event
\* had set stayed, the polled document carrying another
C24_Witness ==
    /\ view = "map"
    /\ mapData # NullObject
    /\ last.op = "positionRefreshInterval"
    /\ last.args.robots # Failed
    /\ mapData.robots # <<>>
    /\ mapData.robots[1].id = last.args.robots[1].id
    /\ mapData.robots[1].x = "2"
    /\ mapData.robots[1].x = last.args.robots[1].current_x
    /\ mapData.robots[1].battery_level # last.args.robots[1].battery_level

\* the position a push payload or a polled document carries, under either alias
CarriedPosition(data) == [x |-> Defined(data.x, data.current_x), y |-> Defined(data.y, data.current_y)]
CarriesPosition(data) == CarriedPosition(data).x # UNDEFINED /\ CarriedPosition(data).y # UNDEFINED

\* the position the page shows: a robot marker is placed at x, y and a shelf
\* marker at current_x, current_y
RobotMarker(r) == [x |-> r.x, y |-> r.y]
ShelfMarker(s) == [x |-> s.current_x, y |-> s.current_y]

\* every robot of the list that the payload names is at the carried position
RobotsFollow(list, data) ==
    \A i \in DOMAIN list :
        (list[i].id = data.id \/ list[i].robot_id = data.robot_id) =>
            RobotMarker(list[i]) = CarriedPosition(data)

\* every shelf of the list that the payload names is at the carried position
ShelvesFollow(list, data) ==
    \A i \in DOMAIN list :
        list[i].id = data.shelf_id => ShelfMarker(list[i]) = CarriedPosition(data)

\* every record of `new` that was in the store and is in the poll result is at
\* the polled position
PolledFollow(old, new, polled, Marker(_)) ==
    \A i \in DOMAIN old, j \in DOMAIN polled, k \in DOMAIN new :
        (old[i].id = polled[j].id /\ new[k].id = old[i].id /\ CarriesPosition(polled[j])) =>
            Marker(new[k]) = CarriedPosition(polled[j])

\* C25: on the Map page the update that arrives last wins: after a push event
\* or a poll response is applied, each stored robot and shelf it carries a
\* position for is shown at the carried position, whatever was applied before.
C25_LastArrivalWins ==
    [][(view = "map" /\ mapData # NullObject) =>
          /\ (last'.op \in {"telemetry", "robot_update"} /\ CarriesPosition(last'.args)) =>
                RobotsFollow(mapData'.robots, last'.args)
          /\ (last'.op = "shelf_update" /\ CarriesPosition(last'.args)) =>
                ShelvesFollow(mapData'.shelves, last'.args)
          /\ last'.op = "positionRefreshInterval" =>
                /\ PolledFollow(mapData.robots, mapData'.robots, last'.args.robots, RobotMarker)
                /\ PolledFollow(mapData.shelves, mapData'.shelves, last'.args.shelves,
                                ShelfMarker)]_vars

Realias(data, from, to) == [data EXCEPT ![to] = data[from], ![from] = UNDEFINED]

\* the payloads that carry the identifier of `data` under another key of `keys`
IdAliases(data, keys) ==
    {Realias(data, from, to) :
        <<from, to>> \in {p \in keys \X keys : data[p[1]] # UNDEFINED /\ data[p[2]] = UNDEFINED}}

\* the payloads that carry the position of `data` under the other pair of keys
PositionAliases(data) ==
    {Realias(Realias(data, p[1], p[2]), p[3], p[4]) :
        p \in {q \in {<<"x", "current_x", "y", "current_y">>, <<"current_x", "x", "current_y", "y">>} :
                  /\ data[q[1]] # UNDEFINED /\ data[q[3]] # UNDEFINED
                  /\ data[q[2]] = UNDEFINED /\ data[q[4]] = UNDEFINED}}

RobotAliases(data) == IdAliases(data, {"id", "robot_id", "robot"}) \cup PositionAliases(data)
ShelfAliases(data) == IdAliases(data, {"id", "shelf_id"}) \cup PositionAliases(data)

\* C27: a payload that differs from the received one only in the alias used
\* for the position or for the identifier would have produced the same update
\* of the store, in each handler of the event.
C27_AliasesAreEquivalent ==
    [][/\ (view = "map" /\ last'.op = "telemetry") =>
            \A e \in RobotAliases(last'.args) :
                MapOnRobotUpdate(MapOnTelemetry(mapData, e), e) = mapData'
       /\ (view = "map" /\ last'.op = "robot_update") =>
            \A e \in RobotAliases(last'.args) : MapOnRobotUpdate(mapData, e) = mapData'
       /\ (view = "map" /\ last'.op = "shelf_update") =>
            \A e \in ShelfAliases(last'.args) : MapOnShelfUpdate(mapData, e) = mapData'
       /\ (view = "shelves" /\ last'.op = "shelf_update") =>
            \A e \in ShelfAliases(last'.args) : ShelvesOnShelfUpdate(shelfList, e) = shelfList'
       /\ (view = "shelves" /\ last'.op = "shelf_location_update") =>
            \A e \in ShelfAliases(last'.args) :
                ShelvesOnShelfLocationUpdate(shelfList, e) = shelfList']_vars

\* C28: a callback registered in the registry and not unsubscribed is called
\* for every later socket event of its name, whatever pages mounted or
\* unmounted since it was registered.
C28_RegistryOutlivesPages ==
    [][(view = "registry" /\ last'.op \in PageEvents) =>
          dispatched'.calls = Owed(<<last'.op>>)]_vars

\* the two aliases of each position field agree wherever the record has both
AliasesAgree(r) ==
    \A p \in {<<"x", "current_x">>, <<"y", "current_y">>, <<"yaw", "current_yaw">>} :
        (r[p[1]] # UNDEFINED /\ r[p[2]] # UNDEFINED) => r[p[1]] = r[p[2]]

\* C29: in mapData every robot and every shelf has x = current_x, y = current_y
\* and yaw = current_yaw whenever both fields of the pair are defined, after the
\* load and any push events and fast polls.
C29_AliasesStayEqual ==
    (view = "map" /\ mapData # NullObject) =>
        /\ \A i \in DOMAIN mapData.robots : AliasesAgree(mapData.robots[i])
        /\ \A i \in DOMAIN mapData.shelves : AliasesAgree(mapData.shelves[i])

\* C30: while the hook is mounted and connected, a render of its owner leaves
\* the hook on the same socket, which stays connected, and isConnected true.
C30_RenderKeepsSocket ==
    [][(view = "hook" /\ RefConnected /\ hook.isConnected /\ last'.op = "render") =>
          /\ hook'.socketRef = hook.socketRef
          /\ sockets'[hook.socketRef].state = "connected"
          /\ hook'.isConnected]_vars

====
